---------------------------- MODULE Spec2Model ----------------------------
(***************************************************************************)
(* sparktop: a terminal process monitor.                                   *)
(*                                                                         *)
(* The module models four parts of the program:                            *)
(*   - render.rs   compress_history, the tiered down-sampling of a         *)
(*                 history into display bars (SpecScheme, SpecCompress,    *)
(*                 SpecIdentity, SpecNarrow, SpecTier0), the markers drawn *)
(*                 under them (SpecMarkers) and the glyph float_bar picks  *)
(*                 for a bar (SpecBar);                                    *)
(*   - sproc.rs / sprocs.rs   the record table and its per-tick update,    *)
(*                 tombstones and reaping (SpecTable), and the smoother    *)
(*                 ewma on its own (SpecEwma);                             *)
(*   - view_state.rs   the view model under its keys (SpecKeys);           *)
(*   - event.rs / sterm.rs / bin/sparktop.rs   the two producer threads,   *)
(*                 the channel, the consume loop and the terminal modes    *)
(*                 (SpecLoop, FairLoop).                                   *)
(*                                                                         *)
(* f64 sample values are modelled by integers; a mean is kept as the       *)
(* exact pair (sum, n) of the division the code performs.                  *)
(***************************************************************************)
EXTENDS Integers, Sequences, FiniteSets, TLC

VARIABLES
    hist,        \* render.rs: the history handed to compress_history
    width,       \* render.rs: the width handed to compress_history
    compressed,  \* render.rs: the Vec<f64> compress_history returned
    scheme,      \* render.rs: the CompressionScheme it returned
    rpc,         \* "input", "allocated" (scheme computed), "done" (output built),
                 \* "fault" (an operation of compress_history had no result)
    markers,     \* render.rs: the markers visual_markers returned for the
                 \* scheme, by their text; <<>> before it is called
    sprocs,      \* sprocs.rs: SProcs.sprocs, the table pid -> SProc
    latest_procs,\* sprocs.rs: the snapshot the last update read
    ewma_weight, \* bin/sparktop.rs: Opt.ewma_weight, the fraction [num, den]
    live_left,   \* number of live samples the snapshots may still carry
    samples_taken, \* per pid: the samples its record has taken since it was
                 \* created, the seed included (counted up to one past the
                 \* limit); 0 without a record
    absent_run,  \* per pid: the consecutive snapshots, up to the latest, that
                 \* lack it since one that had it (0: in the latest, or never seen)
    alive_before,\* per pid: its record had no tombstone when that run began
    chan,        \* event.rs: the events sent on the channel and not yet received
    sent,        \* the events sent so far, in the order the sends completed
    received,    \* the events EventStream::next returned so far, in order
    applied,     \* the snapshots the updates of the loop read so far, in order
    ticker_pc,   \* ticker thread: "unspawned", "send", "sleep", "panicked"
    ticker_last, \* what the ticker did last: "started", "sent" a Tick, "slept"
    reader_pc,   \* reader thread: "unspawned", "read", "panicked"
    main_pc,     \* main thread: "terminal_new", "enter_alt", "enable_raw",
                 \* "spawn", "next", "draw", "leave_alt", "disable_raw", "exited"
    exit_status, \* "running", then how main ended: "ok", "err", "panic"
    alt_screen,  \* the terminal is in the alternate screen
    raw_mode,    \* the terminal is in raw mode
    restore_called, \* restore_terminal has been entered
    io_failed,   \* a terminal read of the reader, or a draw, has failed
    state,       \* view.rs: View.state, the ViewState
    height,      \* the height of the terminal, as f.size() reports it
    overflow_checks, \* the build panics on integer overflow (else it wraps)
    ticks_left,  \* the Ticks the ticker may still send (Forever: no bound)
    input_left,  \* the terminal events the reader may still read
    ewma_new,    \* sproc.rs: the new_val handed to ewma
    ewma_prev,   \* sproc.rs: the prev_ewma handed to ewma
    ewma_out,    \* sproc.rs: the value ewma returned
    ewma_pc,     \* "input", "done" (ewma has returned)
    bar_p,       \* render.rs: the ratio x / max render_vec hands to float_bar,
                 \* in units of 1 / RatioScale
    bar_f,       \* render.rs: float_bar's f, in units of 1 / (8 * RatioScale)
    bar_i,       \* render.rs: float_bar's i
    bar_out,     \* the char float_bar returned, <<>> before it returns
    bar_pc,      \* "call", "loop" (in the while loop), "done"
    key_code     \* view_state.rs: the key of the call of handle_key that
                 \* SpecKeys looks at; "" before the first call

renderVars == <<hist, width, compressed, scheme, rpc, markers>>

tableVars ==
    <<sprocs, latest_procs, ewma_weight, live_left, absent_run, alive_before,
      samples_taken>>

loopVars ==
    <<chan, sent, received, applied, ticker_pc, ticker_last, reader_pc,
      main_pc, exit_status,
      alt_screen, raw_mode, restore_called, io_failed, state, height,
      overflow_checks, ticks_left, input_left>>

ewmaVars == <<ewma_new, ewma_prev, ewma_out, ewma_pc>>

barVars == <<bar_p, bar_f, bar_i, bar_out, bar_pc>>

keyVars == <<key_code>>

vars == <<renderVars, tableVars, loopVars, ewmaVars, barVars, keyVars>>

Min(a, b) == IF a <= b THEN a ELSE b

Max(a, b) == IF a >= b THEN a ELSE b

(***************************************************************************)
(* Program constants.                                                      *)
(***************************************************************************)
SAMPLE_LIMIT == 600

TIER0_END == 120

TIER1_END == 300

(***************************************************************************)
(* Bounds of the model.                                                    *)
(***************************************************************************)
MaxWidth == 601

Near == 2

MaxPids == 2

MaxLive == 2

MaxTicks == 2

MaxInput == 2

MaxChan == 2

MaxLog == 4

WeightScale == 4

MaxValue == 24

RatioScale == 200

(***************************************************************************)
(* sproc.rs: SProc, one tracked process.                                   *)
(*                                                                         *)
(* The f64 fields cpu_ewma, disk_read_ewma, disk_write_ewma and mem_mb are *)
(* fixed-point numbers in units of 1/1024, rounded down; a weight is a      *)
(* fraction [num, den], and the default of the option is WeightNum /       *)
(* WeightDen.  Option<Tombstone> is the sequence <<>> (None) or            *)
(* <<[dead_for_ticks |-> n]>> (Some).                                      *)
(***************************************************************************)
WeightNum == 1

WeightDen == 2

\* Opt.ewma_weight when the command line does not give it: 0.5.
DefaultWeight == [num |-> WeightNum, den |-> WeightDen]

\* The weights k / WeightScale from 0 to 1.
Weights == {[num |-> k, den |-> WeightScale] : k \in 0..WeightScale}

\* The weights the table is run with: the default and a quarter.
TableWeights == {DefaultWeight, [num |-> 1, den |-> 2 * WeightDen]}

ToFixed(x) == x * 1024

\* w times x, as a multiple of 1 / w.den.
Times(w, x) == w.num * x

\* (1 - w) times x, as a multiple of 1 / w.den.
TimesRest(w, x) == (w.den - w.num) * x

\* A variant of ewma with the two weights exchanged.
ewma_Swapped(new_val, prev_ewma, weight) ==
    (TimesRest(weight, new_val) + Times(weight, prev_ewma)) \div weight.den

\* fn ewma(new_val, prev_ewma, ewma_weight), on fixed-point values:
\* new_val * ewma_weight + prev_ewma * (1. - ewma_weight).
ewma(new_val, prev_ewma, weight) ==
    (Times(weight, new_val) + TimesRest(weight, prev_ewma)) \div weight.den

\* VecDeque::truncate(limit)
Truncate(deq, limit) == IF Len(deq) > limit THEN SubSeq(deq, 1, limit) ELSE deq

\* A variant of push_sample that pushes at the back.
push_sample_Back(deq, x, limit) == Truncate(Append(deq, x), limit)

\* fn push_sample(deq, x, limit): push_front, then truncate.
push_sample(deq, x, limit) == Truncate(<<x>> \o deq, limit)

\* SProc::is_dead
is_dead(sp) == sp.tombstone # <<>>

\* A variant of add_sample_helper that pushes no disk-write sample.
add_sample_helper_NoWriteSample(sp, cpu, mem_kb, disk_read_bytes, disk_write_bytes, weight) ==
    [sp EXCEPT
        !.cpu_ewma = ewma(ToFixed(cpu), sp.cpu_ewma, weight),
        !.mem_mb = ToFixed(mem_kb) \div 1024,
        !.disk_read_ewma =
            ewma(ToFixed(disk_read_bytes), sp.disk_read_ewma, weight),
        !.disk_write_ewma =
            ewma(ToFixed(disk_write_bytes), sp.disk_write_ewma, weight),
        !.cpu_hist = push_sample(sp.cpu_hist, cpu, SAMPLE_LIMIT),
        !.disk_read_hist = push_sample(sp.disk_read_hist, disk_read_bytes,
                                       SAMPLE_LIMIT)]

\* A variant of add_sample_helper that smooths mem_mb like the averages.
add_sample_helper_SmoothedMem(sp, cpu, mem_kb, disk_read_bytes, disk_write_bytes, weight) ==
    [sp EXCEPT
        !.cpu_ewma = ewma(ToFixed(cpu), sp.cpu_ewma, weight),
        !.mem_mb = ewma(ToFixed(mem_kb) \div 1024, sp.mem_mb, weight),
        !.disk_read_ewma =
            ewma(ToFixed(disk_read_bytes), sp.disk_read_ewma, weight),
        !.disk_write_ewma =
            ewma(ToFixed(disk_write_bytes), sp.disk_write_ewma, weight),
        !.cpu_hist = push_sample(sp.cpu_hist, cpu, SAMPLE_LIMIT),
        !.disk_read_hist = push_sample(sp.disk_read_hist, disk_read_bytes,
                                       SAMPLE_LIMIT),
        !.disk_write_hist = push_sample(sp.disk_write_hist, disk_write_bytes,
                                        SAMPLE_LIMIT)]

\* SProc::add_sample_helper
add_sample_helper(sp, cpu, mem_kb, disk_read_bytes, disk_write_bytes, weight) ==
    [sp EXCEPT
        !.cpu_ewma = ewma(ToFixed(cpu), sp.cpu_ewma, weight),
        !.mem_mb = ToFixed(mem_kb) \div 1024,
        !.disk_read_ewma =
            ewma(ToFixed(disk_read_bytes), sp.disk_read_ewma, weight),
        !.disk_write_ewma =
            ewma(ToFixed(disk_write_bytes), sp.disk_write_ewma, weight),
        !.cpu_hist = push_sample(sp.cpu_hist, cpu, SAMPLE_LIMIT),
        !.disk_read_hist = push_sample(sp.disk_read_hist, disk_read_bytes,
                                       SAMPLE_LIMIT),
        !.disk_write_hist = push_sample(sp.disk_write_hist, disk_write_bytes,
                                        SAMPLE_LIMIT)]

\* SProc::add_sample.  The tombstone field is not touched.
add_sample(sp, p, weight) ==
    add_sample_helper(sp, p.cpu_usage, p.memory, p.read_bytes, p.written_bytes,
                      weight)

\* A variant of NextTombstone that starts the count again at every absence.
NextTombstone_Restart(t) == <<[dead_for_ticks |-> 1]>>

\* The tombstone after add_dead_sample's match: Some(1) or dead_for_ticks + 1.
NextTombstone(t) ==
    IF t = <<>>
    THEN <<[dead_for_ticks |-> 1]>>
    ELSE <<[dead_for_ticks |-> t[1].dead_for_ticks + 1]>>

\* SProc::add_dead_sample: the record afterwards ...
add_dead_sample(sp, weight) ==
    [add_sample_helper(sp, 0, 0, 0, 0, weight) EXCEPT
        !.tombstone = NextTombstone(sp.tombstone)]

\* A variant of ShouldReap that reaps a tick late.
ShouldReap_Late(sp) == sp.tombstone[1].dead_for_ticks > SAMPLE_LIMIT + 1

\* A variant of ShouldReap that reaps a tick early.
ShouldReap_AtLimit(sp) == sp.tombstone[1].dead_for_ticks >= SAMPLE_LIMIT

\* The DeadStatus add_dead_sample returns, as "is it ShouldReap".
ShouldReap(sp) == sp.tombstone[1].dead_for_ticks > SAMPLE_LIMIT

\* A variant of From<&Process> whose averages start at zero.
FromProcess_Zeroed(pid, p) ==
    [pid |-> pid,
     name |-> p.name,
     cpu_ewma |-> 0,
     cpu_hist |-> <<p.cpu_usage>>,
     mem_mb |-> ToFixed(p.memory) \div 1024,
     disk_read_ewma |-> 0,
     disk_read_hist |-> <<p.read_bytes>>,
     disk_write_ewma |-> 0,
     disk_write_hist |-> <<p.written_bytes>>,
     tombstone |-> <<>>]

\* impl From<&Process> for SProc
FromProcess(pid, p) ==
    [pid |-> pid,
     name |-> p.name,
     cpu_ewma |-> ToFixed(p.cpu_usage),
     cpu_hist |-> <<p.cpu_usage>>,
     mem_mb |-> ToFixed(p.memory) \div 1024,
     disk_read_ewma |-> ToFixed(p.read_bytes),
     disk_read_hist |-> <<p.read_bytes>>,
     disk_write_ewma |-> ToFixed(p.written_bytes),
     disk_write_hist |-> <<p.written_bytes>>,
     tombstone |-> <<>>]

\* No call of ewma is being looked at.
EwmaIdle ==
    /\ ewma_new = 0
    /\ ewma_prev = 0
    /\ ewma_out = 0
    /\ ewma_pc = "input"

\* The values ewma is tried on: multiples of WeightScale, so that a product
\* with a weight k / WeightScale is a whole number and nothing is rounded.
Values == {WeightScale * k : k \in 0..MaxValue}

\* One call of ewma(new_val, prev_ewma, ewma_weight).
Smooth ==
    /\ ewma_pc = "input"
    /\ ewma_out' = ewma(ewma_new, ewma_prev, ewma_weight)
    /\ ewma_pc' = "done"
    /\ UNCHANGED <<ewma_new, ewma_prev, renderVars, tableVars, loopVars,
                   barVars, keyVars>>

(***************************************************************************)
(* sprocs.rs: SProcs, the table, and its update.                           *)
(***************************************************************************)
Pids == 1..MaxPids

\* What sysinfo reports of one process: name, cpu_usage(), memory() and
\* disk_usage().{read_bytes, written_bytes}.
Procs ==
    {[name |-> "a", cpu_usage |-> 1, memory |-> 2048, read_bytes |-> 2,
      written_bytes |-> 3],
     [name |-> "b", cpu_usage |-> 4, memory |-> 1024, read_bytes |-> 0,
      written_bytes |-> 5]}

\* sys.processes() after a refresh: any processes under any of the pids.
Snapshots == UNION {[S -> Procs] : S \in SUBSET Pids}

\* The first loop of update: entry(pid).and_modify(add_sample).or_insert_with.
Observed(table, latest, weight) ==
    [pid \in DOMAIN table \cup DOMAIN latest |->
        IF pid \in DOMAIN latest
        THEN IF pid \in DOMAIN table
             THEN add_sample(table[pid], latest[pid], weight)
             ELSE FromProcess(pid, latest[pid])
        ELSE table[pid]]

\* dead_procs: the records whose pid the snapshot lacks.
DeadPids(table, latest) == DOMAIN table \ DOMAIN latest

\* The second half of update: a dead sample for every dead record, and the
\* removal of those that answer ShouldReap.
Buried(table, latest, weight) ==
    LET fed == [pid \in DOMAIN table |->
                   IF pid \in DeadPids(table, latest)
                   THEN add_dead_sample(table[pid], weight)
                   ELSE table[pid]]
        procs_to_reap == {pid \in DeadPids(table, latest) : ShouldReap(fed[pid])}
    IN  [pid \in DOMAIN fed \ procs_to_reap |-> fed[pid]]

\* SProcs::update, given the snapshot its refresh read.
update(table, latest, weight) ==
    Buried(Observed(table, latest, weight), latest, weight)

\* SProcs::default: an empty table.  live: the live samples to come;
\* weights: the values the option ewma_weight may have.
InitTableWith(live, weights) ==
    /\ sprocs = <<>>
    /\ latest_procs = <<>>
    /\ ewma_weight \in weights
    /\ live_left = live
    /\ absent_run = [pid \in Pids |-> 0]
    /\ samples_taken = [pid \in Pids |-> 0]
    /\ alive_before = [pid \in Pids |-> FALSE]

InitTable == InitTableWith(MaxLive, {DefaultWeight})

\* The ticks of a tombstone at which the model lets processes show up: within
\* Near ticks of its start or of the reaping limit.  The ticks in between
\* differ from one another only in the counter and the number of zeros pushed.
NearAnEnd(sp) ==
    is_dead(sp) =>
        \/ sp.tombstone[1].dead_for_ticks <= Near
        \/ sp.tombstone[1].dead_for_ticks >= SAMPLE_LIMIT - Near

\* The bound on the snapshots: live_left live samples in all, and a non-empty
\* snapshot only while every tombstone is near an end.
SnapshotAllowed(latest) ==
    /\ Cardinality(DOMAIN latest) <= live_left
    /\ latest # <<>> => \A pid \in DOMAIN sprocs : NearAnEnd(sprocs[pid])

\* What the snapshots did, whatever the table made of it: the length of each
\* pid's run of absences (counted up to one past the limit), and whether the
\* run began with a record that had no tombstone.
AbsentRun(latest) ==
    [pid \in Pids |->
        IF pid \in DOMAIN latest THEN 0
        ELSE IF absent_run[pid] > 0
        THEN Min(absent_run[pid] + 1, SAMPLE_LIMIT + 1)
        ELSE IF pid \in DOMAIN latest_procs THEN 1
        ELSE 0]

AliveBefore(latest) ==
    [pid \in Pids |->
        IF pid \in DOMAIN latest THEN FALSE
        ELSE IF absent_run[pid] > 0 THEN alive_before[pid]
        ELSE pid \in DOMAIN sprocs /\ ~is_dead(sprocs[pid])]

\* The samples each record has taken once the update has left the table
\* after: one more for a record that stays, the seed for a new one.
SamplesTaken(after) ==
    [pid \in Pids |->
        IF pid \notin DOMAIN after THEN 0
        ELSE IF pid \in DOMAIN sprocs
        THEN Min(samples_taken[pid] + 1, SAMPLE_LIMIT + 1)
        ELSE 1]

\* One call of SProcs::update, with the snapshot its refresh reads.
Update(latest) ==
    /\ SnapshotAllowed(latest)
    /\ sprocs' = update(sprocs, latest, ewma_weight)
    /\ UNCHANGED ewma_weight
    /\ latest_procs' = latest
    /\ live_left' = live_left - Cardinality(DOMAIN latest)
    /\ absent_run' = AbsentRun(latest)
    /\ alive_before' = AliveBefore(latest)
    /\ samples_taken' = SamplesTaken(sprocs')

(***************************************************************************)
(* SpecTable: the table under a sequence of updates, one per tick.         *)
(***************************************************************************)
TableTick ==
    /\ \E latest \in Snapshots : Update(latest)
    /\ UNCHANGED <<renderVars, loopVars, ewmaVars, barVars, keyVars>>

(***************************************************************************)
(* view_state.rs: the view model and its keys                              *)
(***************************************************************************)
SortColumns == {"Pid", "Cpu", "Mem", "DiskRead", "DiskWrite", "DiskTotal"}

DisplayColumns ==
    {"Pid", "ProcessName", "DiskRead", "DiskWrite", "Mem", "Cpu", "CpuHistory"}

\* KeyCode: Esc and Enter, and Char(c) written as the character c.
NonCharKeys == {"Esc", "Enter"}

IsChar(code) == code \notin NonCharKeys

\* The keys the reader thread reads in the model.
Keys == {"Esc", "Enter", "q", "s", "c", "p", "h"}

\* An Option is the empty sequence (None) or a sequence of one value (Some).
None == <<>>

Some(v) == <<v>>

\* ViewState::default.
DefaultViewState ==
    [sort_by |-> "Cpu", sort_dir |-> "Desc",
     displayed_columns |-> [col \in DisplayColumns |-> TRUE],
     alert |-> None, should_quit |-> FALSE, action |-> "Top"]

\* VIEW_ACTIONS, searched by Action::action_from_char.
action_from_char(input_c) ==
    CASE input_c = "s" -> Some("SelectSort")
      [] input_c = "c" -> Some("ToggleColumn")
      [] OTHER -> None

\* VIEW_SORT_COLUMNS, searched by Action::sort_col_from_char.
sort_col_from_char(input_c) ==
    CASE input_c = "p" -> Some("Pid")
      [] input_c = "r" -> Some("DiskRead")
      [] input_c = "w" -> Some("DiskWrite")
      [] input_c = "d" -> Some("DiskTotal")
      [] input_c = "m" -> Some("Mem")
      [] input_c = "c" -> Some("Cpu")
      [] OTHER -> None

\* VIEW_DISPLAY_COLUMNS, searched by Action::display_col_from_char.
display_col_from_char(input_c) ==
    CASE input_c = "p" -> Some("Pid")
      [] input_c = "n" -> Some("ProcessName")
      [] input_c = "r" -> Some("DiskRead")
      [] input_c = "w" -> Some("DiskWrite")
      [] input_c = "m" -> Some("Mem")
      [] input_c = "c" -> Some("Cpu")
      [] input_c = "h" -> Some("CpuHistory")
      [] OTHER -> None

\* DisplayedColumns::toggle.
toggle(cols, col) == [cols EXCEPT ![col] = ~cols[col]]

\* A variant of KeyMatch in which 'q' quits from every mode.
KeyMatch_QuitAnywhere(st, code) ==
    IF code = "Esc"
    THEN [st |-> [st EXCEPT !.action = "Top"], unhandled |-> FALSE]
    ELSE IF code = "q"
    THEN [st |-> [st EXCEPT !.should_quit = TRUE], unhandled |-> FALSE]
    ELSE IF st.action = "Top" /\ IsChar(code)
    THEN LET a == action_from_char(code)
         IN  IF a # None
             THEN [st |-> [st EXCEPT !.action = a[1]], unhandled |-> FALSE]
             ELSE [st |-> st, unhandled |-> TRUE]
    ELSE IF st.action = "SelectSort" /\ IsChar(code)
    THEN LET col == sort_col_from_char(code)
         IN  IF col # None
             THEN [st |-> [st EXCEPT !.sort_by = col[1], !.action = "Top"],
                   unhandled |-> FALSE]
             ELSE [st |-> st, unhandled |-> TRUE]
    ELSE IF st.action = "ToggleColumn" /\ IsChar(code)
    THEN LET col == display_col_from_char(code)
         IN  IF col # None
             THEN [st |-> [st EXCEPT
                             !.displayed_columns = toggle(@, col[1]),
                             !.action = "Top"],
                   unhandled |-> FALSE]
             ELSE [st |-> st, unhandled |-> TRUE]
    ELSE [st |-> st, unhandled |-> TRUE]

\* The match of ViewState::handle_key: the state it leaves, alert apart, and
\* whether the key was unhandled.
KeyMatch(st, code) ==
    IF code = "Esc"
    THEN [st |-> [st EXCEPT !.action = "Top"], unhandled |-> FALSE]
    ELSE IF st.action = "Top" /\ code = "q"
    THEN [st |-> [st EXCEPT !.should_quit = TRUE], unhandled |-> FALSE]
    ELSE IF st.action = "Top" /\ IsChar(code)
    THEN LET a == action_from_char(code)
         IN  IF a # None
             THEN [st |-> [st EXCEPT !.action = a[1]], unhandled |-> FALSE]
             ELSE [st |-> st, unhandled |-> TRUE]
    ELSE IF st.action = "SelectSort" /\ IsChar(code)
    THEN LET col == sort_col_from_char(code)
         IN  IF col # None
             THEN [st |-> [st EXCEPT !.sort_by = col[1], !.action = "Top"],
                   unhandled |-> FALSE]
             ELSE [st |-> st, unhandled |-> TRUE]
    ELSE IF st.action = "ToggleColumn" /\ IsChar(code)
    THEN LET col == display_col_from_char(code)
         IN  IF col # None
             THEN [st |-> [st EXCEPT
                             !.displayed_columns = toggle(@, col[1]),
                             !.action = "Top"],
                   unhandled |-> FALSE]
             ELSE [st |-> st, unhandled |-> TRUE]
    ELSE [st |-> st, unhandled |-> TRUE]

\* A variant of handle_key in which a handled key leaves the alert as it was.
handle_key_StickyAlert(st, code) ==
    LET m == KeyMatch(st, code)
    IN  [m.st EXCEPT !.alert = IF m.unhandled THEN Some(code) ELSE @]

\* ViewState::handle_key.  The alert's text is the key it names.
handle_key(st, code) ==
    LET m == KeyMatch(st, code)
    IN  [m.st EXCEPT !.alert = IF m.unhandled THEN Some(code) ELSE None]

\* View::handle_key: the Next it returns for the state handle_key left.
NextOf(st) == IF st.should_quit THEN "Quit" ELSE "Continue"

\* No call of handle_key is being looked at.
KeyIdle == key_code = ""

(***************************************************************************)
(* event.rs: the channel and its two producers                             *)
(***************************************************************************)
TickEvent == [type |-> "Tick", code |-> ""]

ResizeEvent == [type |-> "Resize", code |-> ""]

KeyEvent(code) == [type |-> "Key", code |-> code]

\* Sender::send on the mpsc channel, the receiver alive.
send(ch, e) == Append(ch, e)

\* A variant of recv that takes the newest event.
recv_Newest(ch) == [event |-> ch[Len(ch)], rest |-> SubSeq(ch, 1, Len(ch) - 1)]

\* Receiver::recv on a channel that holds an event.
recv(ch) == [event |-> Head(ch), rest |-> Tail(ch)]

\* The logs keep the first MaxLog entries.
Log(log, e) == IF Len(log) < MaxLog THEN Append(log, e) ELSE log

\* The heights the terminal takes in the model.
Heights == {0, 3, 24}

\* A budget of Forever is never spent.
Forever == 0 - 1

Spend(budget) == IF budget > 0 THEN budget - 1 ELSE budget

\* main owns the receiver from EventStream::new until it leaves the loop.
ReceiverAlive == main_pc \in {"next", "draw"}

\* The process, and every thread of it, runs until main has ended.
ProcessRunning == main_pc # "exited"

\* A send and the expect on its result: the event is queued, or the thread
\* panics because the receiver is gone.
SendOrPanic(e, pc, back_to) ==
    IF ReceiverAlive
    THEN /\ Len(chan) < MaxChan
         /\ chan' = send(chan, e)
         /\ sent' = Log(sent, e)
         /\ pc' = back_to
    ELSE /\ pc' = "panicked"
         /\ UNCHANGED <<chan, sent>>

\* A variant of TickerSend after which the ticker does not sleep.
TickerSend_NoSleep ==
    /\ ProcessRunning
    /\ ticker_pc = "send"
    /\ ticks_left # 0
    /\ SendOrPanic(TickEvent, ticker_pc, "send")
    /\ ticker_last' = (IF ReceiverAlive THEN "sent" ELSE ticker_last)
    /\ ticks_left' = Spend(ticks_left)
    /\ UNCHANGED <<received, applied, reader_pc, main_pc, exit_status,
                   alt_screen, raw_mode, restore_called, io_failed, state,
                   height, overflow_checks, input_left>>
    /\ UNCHANGED <<renderVars, tableVars, ewmaVars, barVars, keyVars>>

\* event.rs 30-33, the ticker: send a Tick, ...
TickerSend ==
    /\ ProcessRunning
    /\ ticker_pc = "send"
    /\ ticks_left # 0
    /\ SendOrPanic(TickEvent, ticker_pc, "sleep")
    /\ ticker_last' = (IF ReceiverAlive THEN "sent" ELSE ticker_last)
    /\ ticks_left' = Spend(ticks_left)
    /\ UNCHANGED <<received, applied, reader_pc, main_pc, exit_status,
                   alt_screen, raw_mode, restore_called, io_failed, state,
                   height, overflow_checks, input_left>>
    /\ UNCHANGED <<renderVars, tableVars, ewmaVars, barVars, keyVars>>

\* ... then sleep for tick_every.
TickerSleep ==
    /\ ProcessRunning
    /\ ticker_pc = "sleep"
    /\ ticker_pc' = "send"
    /\ ticker_last' = "slept"
    /\ UNCHANGED <<chan, sent, received, applied, reader_pc, main_pc,
                   exit_status, alt_screen, raw_mode, restore_called,
                   io_failed, state, height, overflow_checks, ticks_left,
                   input_left>>
    /\ UNCHANGED <<renderVars, tableVars, ewmaVars, barVars, keyVars>>

\* The reader thread is blocked in crossterm::event::read.
ReaderReads ==
    /\ ProcessRunning
    /\ reader_pc = "read"
    /\ input_left > 0
    /\ input_left' = input_left - 1

\* event.rs 39-40: read returns a key, which is sent on.
ReaderKey ==
    /\ ReaderReads
    /\ \E code \in Keys : SendOrPanic(KeyEvent(code), reader_pc, "read")
    /\ UNCHANGED <<received, applied, ticker_pc, ticker_last, main_pc, exit_status,
                   alt_screen, raw_mode, restore_called, io_failed, state,
                   height, overflow_checks, ticks_left>>
    /\ UNCHANGED <<renderVars, tableVars, ewmaVars, barVars, keyVars>>

\* event.rs 39, 41: the terminal was resized; read returns the Resize, which
\* is sent on without the size.
ReaderResize ==
    /\ ReaderReads
    /\ \E h \in Heights : height' = h
    /\ SendOrPanic(ResizeEvent, reader_pc, "read")
    /\ UNCHANGED <<received, applied, ticker_pc, ticker_last, main_pc, exit_status,
                   alt_screen, raw_mode, restore_called, io_failed, state,
                   overflow_checks, ticks_left>>
    /\ UNCHANGED <<renderVars, tableVars, ewmaVars, barVars, keyVars>>

\* event.rs 39, 42: read returns a mouse event, which is not sent.
ReaderMouse ==
    /\ ReaderReads
    /\ UNCHANGED <<chan, sent, received, applied, ticker_pc, ticker_last, reader_pc,
                   main_pc, exit_status, alt_screen, raw_mode, restore_called,
                   io_failed, state, height, overflow_checks, ticks_left>>
    /\ UNCHANGED <<renderVars, tableVars, ewmaVars, barVars, keyVars>>

\* event.rs 39: read returns an error and the expect panics: the reader
\* thread ends, the other threads run on.
ReaderFail ==
    /\ ReaderReads
    /\ reader_pc' = "panicked"
    /\ io_failed' = TRUE
    /\ UNCHANGED <<chan, sent, received, applied, ticker_pc, ticker_last, main_pc,
                   exit_status, alt_screen, raw_mode, restore_called, state,
                   height, overflow_checks, ticks_left>>
    /\ UNCHANGED <<renderVars, tableVars, ewmaVars, barVars, keyVars>>

(***************************************************************************)
(* sterm.rs, bin/sparktop.rs: the main thread                              *)
(***************************************************************************)
\* A panic of the main thread that no STerm is there to unwind through, or a
\* panic inside restore_terminal: the process ends as the terminal is.
MainPanics ==
    /\ main_pc' = "exited"
    /\ exit_status' = "panic"

\* sterm.rs 17: tui::Terminal::new, and the expect on its result.
TerminalNew ==
    /\ main_pc = "terminal_new"
    /\ \E ok \in BOOLEAN :
          IF ok
          THEN main_pc' = "enter_alt" /\ UNCHANGED exit_status
          ELSE MainPanics
    /\ UNCHANGED <<chan, sent, received, applied, ticker_pc, ticker_last, reader_pc,
                   alt_screen, raw_mode, restore_called, io_failed, state,
                   height, overflow_checks, ticks_left, input_left>>
    /\ UNCHANGED <<renderVars, tableVars, ewmaVars, barVars, keyVars>>

\* sterm.rs 50-51, init_terminal: EnterAlternateScreen, and the expect.
EnterAlternateScreen ==
    /\ main_pc = "enter_alt"
    /\ \E ok \in BOOLEAN :
          IF ok
          THEN /\ alt_screen' = TRUE
               /\ main_pc' = "enable_raw"
               /\ UNCHANGED exit_status
          ELSE MainPanics /\ UNCHANGED alt_screen
    /\ UNCHANGED <<chan, sent, received, applied, ticker_pc, ticker_last, reader_pc,
                   raw_mode, restore_called, io_failed, state, height,
                   overflow_checks, ticks_left, input_left>>
    /\ UNCHANGED <<renderVars, tableVars, ewmaVars, barVars, keyVars>>

\* sterm.rs 53, init_terminal: enable_raw_mode, and the expect.  The STerm is
\* built only after init_terminal returns (sterm.rs 19), so a panic here
\* runs no Drop for STerm.
EnableRawMode ==
    /\ main_pc = "enable_raw"
    /\ \E ok \in BOOLEAN :
          IF ok
          THEN /\ raw_mode' = TRUE
               /\ main_pc' = "spawn"
               /\ UNCHANGED exit_status
          ELSE MainPanics /\ UNCHANGED raw_mode
    /\ UNCHANGED <<chan, sent, received, applied, ticker_pc, ticker_last, reader_pc,
                   alt_screen, restore_called, io_failed, state, height,
                   overflow_checks, ticks_left, input_left>>
    /\ UNCHANGED <<renderVars, tableVars, ewmaVars, barVars, keyVars>>

\* event.rs 26-49, EventStream::new: the channel and the two threads.
Spawn ==
    /\ main_pc = "spawn"
    /\ ticker_pc' = "send"
    /\ ticker_last' = "started"
    /\ reader_pc' = "read"
    /\ main_pc' = "next"
    /\ UNCHANGED <<chan, sent, received, applied, exit_status, alt_screen,
                   raw_mode, restore_called, io_failed, state, height,
                   overflow_checks, ticks_left, input_left>>
    /\ UNCHANGED <<renderVars, tableVars, ewmaVars, barVars, keyVars>>

\* event.rs 54-56, EventStream::next: the event recv returns.
Receives(type) ==
    /\ main_pc = "next"
    /\ chan # <<>>
    /\ recv(chan).event.type = type
    /\ chan' = recv(chan).rest
    /\ received' = Log(received, recv(chan).event)

\* bin/sparktop.rs 35-38, 41: a Tick updates the table; Continue.
HandleTick ==
    /\ Receives("Tick")
    /\ \E latest \in Snapshots :
          /\ Update(latest)
          /\ applied' = Log(applied, latest)
    /\ main_pc' = "draw"
    /\ UNCHANGED <<sent, ticker_pc, ticker_last, reader_pc, exit_status, alt_screen,
                   raw_mode, restore_called, io_failed, state, height,
                   overflow_checks, ticks_left, input_left>>
    /\ UNCHANGED <<renderVars, ewmaVars, barVars, keyVars>>

\* A variant of HandleResize that refreshes the table as well.
HandleResize_Refreshing ==
    /\ Receives("Resize")
    /\ \E latest \in Snapshots : Update(latest)
    /\ main_pc' = "draw"
    /\ UNCHANGED <<sent, applied, ticker_pc, ticker_last, reader_pc, exit_status,
                   alt_screen, raw_mode, restore_called, io_failed, state,
                   height, overflow_checks, ticks_left, input_left>>
    /\ UNCHANGED <<renderVars, ewmaVars, barVars, keyVars>>

\* A variant of HandleResize that goes on to the next event without a draw.
HandleResize_NoDraw ==
    /\ Receives("Resize")
    /\ main_pc' = "next"
    /\ UNCHANGED <<sent, applied, ticker_pc, ticker_last, reader_pc, exit_status,
                   alt_screen, raw_mode, restore_called, io_failed, state,
                   height, overflow_checks, ticks_left, input_left>>
    /\ UNCHANGED <<renderVars, tableVars, ewmaVars, barVars, keyVars>>

\* bin/sparktop.rs 33: a Resize does nothing; Continue.
HandleResize ==
    /\ Receives("Resize")
    /\ main_pc' = "draw"
    /\ UNCHANGED <<sent, applied, ticker_pc, ticker_last, reader_pc, exit_status,
                   alt_screen, raw_mode, restore_called, io_failed, state,
                   height, overflow_checks, ticks_left, input_left>>
    /\ UNCHANGED <<renderVars, tableVars, ewmaVars, barVars, keyVars>>

\* A variant of HandleKey that draws after every key, the quit key included.
HandleKey_DrawsOnQuit ==
    /\ Receives("Key")
    /\ state' = handle_key(state, recv(chan).event.code)
    /\ main_pc' = "draw"
    /\ UNCHANGED <<sent, applied, ticker_pc, ticker_last, reader_pc, exit_status,
                   alt_screen, raw_mode, restore_called, io_failed, height,
                   overflow_checks, ticks_left, input_left>>
    /\ UNCHANGED <<renderVars, tableVars, ewmaVars, barVars, keyVars>>

\* bin/sparktop.rs 34, 40-43: a key goes to View::handle_key; on Quit the
\* loop breaks, main returns Ok and its locals are dropped.
HandleKey ==
    /\ Receives("Key")
    /\ state' = handle_key(state, recv(chan).event.code)
    /\ IF NextOf(state') = "Quit"
       THEN main_pc' = "leave_alt" /\ exit_status' = "ok"
       ELSE main_pc' = "draw" /\ UNCHANGED exit_status
    /\ UNCHANGED <<sent, applied, ticker_pc, ticker_last, reader_pc, alt_screen, raw_mode,
                   restore_called, io_failed, height, overflow_checks,
                   ticks_left, input_left>>
    /\ UNCHANGED <<renderVars, tableVars, ewmaVars, barVars, keyVars>>

\* view.rs 79-87: the height of the first layout row is below zero.
HeightUnderflows ==
    IF state.alert # None THEN height < 4 ELSE height < 1

\* bin/sparktop.rs 41, view.rs 70-121: View::draw.  A terminal write fails and
\* main returns the error; or the height subtraction overflows in a build
\* that checks it and main panics; or the frame is drawn.  Leaving main,
\* either way, drops the View and with it the STerm.
Draw ==
    /\ main_pc = "draw"
    /\ \E ok \in BOOLEAN :
          IF ~ok
          THEN /\ io_failed' = TRUE
               /\ main_pc' = "leave_alt"
               /\ exit_status' = "err"
          ELSE IF HeightUnderflows /\ overflow_checks
          THEN /\ main_pc' = "leave_alt"
               /\ exit_status' = "panic"
               /\ UNCHANGED io_failed
          ELSE /\ main_pc' = "next"
               /\ UNCHANGED <<exit_status, io_failed>>
    /\ UNCHANGED <<chan, sent, received, applied, ticker_pc, ticker_last, reader_pc,
                   alt_screen, raw_mode, restore_called, state, height,
                   overflow_checks, ticks_left, input_left>>
    /\ UNCHANGED <<renderVars, tableVars, ewmaVars, barVars, keyVars>>

\* sterm.rs 36-40, 59-60: Drop for STerm calls restore_terminal, which leaves
\* the alternate screen; the expect on a failure panics out of it.
LeaveAlternateScreen ==
    /\ main_pc = "leave_alt"
    /\ restore_called' = TRUE
    /\ \E ok \in BOOLEAN :
          IF ok
          THEN /\ alt_screen' = FALSE
               /\ main_pc' = "disable_raw"
               /\ UNCHANGED exit_status
          ELSE MainPanics /\ UNCHANGED alt_screen
    /\ UNCHANGED <<chan, sent, received, applied, ticker_pc, ticker_last, reader_pc,
                   raw_mode, io_failed, state, height, overflow_checks,
                   ticks_left, input_left>>
    /\ UNCHANGED <<renderVars, tableVars, ewmaVars, barVars, keyVars>>

\* sterm.rs 62, restore_terminal: disable_raw_mode, and the expect; main ends.
DisableRawMode ==
    /\ main_pc = "disable_raw"
    /\ \E ok \in BOOLEAN :
          IF ok
          THEN /\ raw_mode' = FALSE
               /\ main_pc' = "exited"
               /\ UNCHANGED exit_status
          ELSE MainPanics /\ UNCHANGED raw_mode
    /\ UNCHANGED <<chan, sent, received, applied, ticker_pc, ticker_last, reader_pc,
                   alt_screen, restore_called, io_failed, state, height,
                   overflow_checks, ticks_left, input_left>>
    /\ UNCHANGED <<renderVars, tableVars, ewmaVars, barVars, keyVars>>

\* The state main starts in: nothing spawned, the terminal as the shell left
\* it.  ticks, inputs: the budgets; checks: the builds considered.
LoopStart(ticks, inputs, checks) ==
    /\ chan = <<>>
    /\ sent = <<>>
    /\ received = <<>>
    /\ applied = <<>>
    /\ ticker_pc = "unspawned"
    /\ ticker_last = "started"
    /\ reader_pc = "unspawned"
    /\ main_pc = "terminal_new"
    /\ exit_status = "running"
    /\ alt_screen = FALSE
    /\ raw_mode = FALSE
    /\ restore_called = FALSE
    /\ io_failed = FALSE
    /\ state = DefaultViewState
    /\ height = 24
    /\ overflow_checks \in checks
    /\ ticks_left = ticks
    /\ input_left = inputs

\* The loop does not run.
LoopIdle == LoopStart(0, 0, {TRUE})

TickerStep == TickerSend \/ TickerSleep

ReaderStep == ReaderKey \/ ReaderResize \/ ReaderMouse \/ ReaderFail

MainStep ==
    \/ TerminalNew
    \/ EnterAlternateScreen
    \/ EnableRawMode
    \/ Spawn
    \/ HandleTick
    \/ HandleResize
    \/ HandleKey
    \/ Draw
    \/ LeaveAlternateScreen
    \/ DisableRawMode

(***************************************************************************)
(* render.rs: compress_history                                             *)
(***************************************************************************)

\* usize::saturating_sub
SaturatingSub(a, b) == IF a >= b THEN a - b ELSE 0

\* The tuple (tier0_bars, tier1_bars, tier2_bars, scheme_t0_samples,
\* scheme_t1_samples, scheme_t2_samples) the code calls `allocation`.
Alloc(b0, b1, b2, s0, s1, s2) ==
    [tier0_bars |-> b0, tier1_bars |-> b1, tier2_bars |-> b2,
     tier0_samples |-> s0, tier1_samples |-> s1, tier2_samples |-> s2]

\* The scheme of the early return: everything zero.
ZeroScheme == Alloc(0, 0, 0, 0, 0, 0)

Tier0Samples(hist_len) == Min(hist_len, TIER0_END)

\* A variant of Tier1Samples without the cap at the tier's end.
Tier1Samples_Uncapped(hist_len) ==
    IF hist_len > TIER0_END THEN hist_len - TIER0_END ELSE 0

Tier1Samples(hist_len) ==
    IF hist_len > TIER0_END
    THEN Min(hist_len - TIER0_END, TIER1_END - TIER0_END)
    ELSE 0

\* A variant of Tier2Samples that is one sample short.
Tier2Samples_Short(hist_len) ==
    IF hist_len > TIER1_END THEN hist_len - TIER1_END - 1 ELSE 0

Tier2Samples(hist_len) ==
    IF hist_len > TIER1_END THEN hist_len - TIER1_END ELSE 0

IdealT1(tier1_samples) ==
    IF tier1_samples > 0 THEN Max(tier1_samples \div 4, 1) ELSE 0

IdealT2(tier2_samples) ==
    IF tier2_samples > 0 THEN Max(tier2_samples \div 15, 1) ELSE 0

\* width >= tier0_samples: tier0 at 1:1, the rest of the width to tier1/tier2.
AllocatePlenty(w, tier0_samples, tier1_samples, tier2_samples) ==
    LET t0 == tier0_samples
        remaining == w - t0
        ideal_t1 == IdealT1(tier1_samples)
        ideal_t2 == IdealT2(tier2_samples)
        ideal_remain == ideal_t1 + ideal_t2
    IN  IF tier1_samples = 0 /\ tier2_samples = 0
        THEN Alloc(Min(t0, tier0_samples), 0, 0, tier0_samples, 0, 0)
        ELSE IF tier1_samples > 0 /\ tier2_samples = 0
        THEN Alloc(t0, Min(remaining, tier1_samples), 0,
                   tier0_samples, tier1_samples, 0)
        ELSE IF tier1_samples = 0 /\ tier2_samples > 0
        THEN Alloc(t0, 0, Min(remaining, tier2_samples),
                   tier0_samples, 0, tier2_samples)
        ELSE IF remaining >= tier1_samples + tier2_samples
        THEN Alloc(t0, tier1_samples, tier2_samples,
                   tier0_samples, tier1_samples, tier2_samples)
        ELSE IF remaining >= ideal_remain
        THEN LET extra == remaining - ideal_remain
                 extra_t1 == Min((extra * 2) \div 3, tier1_samples - ideal_t1)
                 extra_t2 == Min(SaturatingSub(extra, extra_t1),
                                 tier2_samples - ideal_t2)
                 t1 == Min(ideal_t1 + extra_t1, tier1_samples)
                 t2 == Min(ideal_t2 + extra_t2, tier2_samples)
             IN  Alloc(t0, t1, t2, tier0_samples, tier1_samples, tier2_samples)
        ELSE LET t1 == IF tier1_samples > 0 /\ remaining > 0
                       THEN Min(Max((remaining * 2) \div 3, 1), tier1_samples)
                       ELSE 0
                 t2 == IF tier2_samples > 0 /\ remaining > 0
                       THEN Min(SaturatingSub(remaining, t1), tier2_samples)
                       ELSE 0
             IN  Alloc(t0, t1, t2, tier0_samples, tier1_samples, tier2_samples)

\* A variant of AllocateVirtual that does not cap the bars of the newest part.
AllocateVirtual_Uncapped(w, tier0_samples) ==
    LET recent_samples == Max(tier0_samples \div 3, 1)
        older_samples == tier0_samples - recent_samples
        recent_bars == Max((w * 2) \div 3, 1)
        older_bars == w - recent_bars
    IN  Alloc(recent_bars, older_bars, 0, recent_samples, older_samples, 0)

\* A variant of AllocateVirtual that gives every bar to the newest part.
AllocateVirtual_RecentOnly(w, tier0_samples) ==
    LET recent_samples == Max(tier0_samples \div 3, 1)
        older_samples == tier0_samples - recent_samples
        recent_bars == Min(w, recent_samples)
    IN  Alloc(recent_bars, 0, 0, recent_samples, older_samples, 0)

\* Only tier0 has data and it is wider than the window: the newest third of
\* tier0 and the older two thirds become the scheme's tier0 and tier1.
AllocateVirtual(w, tier0_samples) ==
    LET recent_samples == Max(tier0_samples \div 3, 1)
        older_samples == tier0_samples - recent_samples
        recent_bars == Min(Max((w * 2) \div 3, 1), recent_samples)
        older_bars == w - recent_bars
    IN  Alloc(recent_bars, older_bars, 0, recent_samples, older_samples, 0)

\* A variant of AllocateConstrained that gives tier1 no bar.
AllocateConstrained_NoTier1(w, tier0_samples, tier1_samples, tier2_samples) ==
    LET t0 == Max((w * 2) \div 3, 1)
    IN  Alloc(t0, 0, SaturatingSub(w, t0),
              tier0_samples, tier1_samples, tier2_samples)

\* A variant of AllocateConstrained that splits every width two to one.
AllocateConstrained_Proportional(w, tier0_samples, tier1_samples, tier2_samples) ==
    LET t0 == Max((w * 2) \div 3, 1)
    IN  Alloc(t0, SaturatingSub(w, t0), 0,
              tier0_samples, tier1_samples, tier2_samples)

\* width < tier0_samples with more than one tier: match width.cmp(&num_tiers).
AllocateConstrained(w, tier0_samples, tier1_samples, tier2_samples) ==
    LET num_tiers == (IF tier0_samples > 0 THEN 1 ELSE 0)
                     + (IF tier1_samples > 0 THEN 1 ELSE 0)
                     + (IF tier2_samples > 0 THEN 1 ELSE 0)
    IN  IF w < num_tiers
        THEN LET t0 == IF tier0_samples > 0 THEN 1 ELSE 0
                 t1 == IF tier1_samples > 0 /\ w > t0 THEN 1 ELSE 0
                 t2 == IF tier2_samples > 0
                       THEN SaturatingSub(w, t0 + t1)
                       ELSE 0
             IN  Alloc(t0, t1, t2, tier0_samples, tier1_samples, tier2_samples)
        ELSE IF w = num_tiers
        THEN Alloc(IF tier0_samples > 0 THEN 1 ELSE 0,
                   IF tier1_samples > 0 THEN 1 ELSE 0,
                   IF tier2_samples > 0 THEN 1 ELSE 0,
                   tier0_samples, tier1_samples, tier2_samples)
        ELSE LET t0 == IF tier0_samples > 0
                       THEN Max((w * 2) \div 3, 1)
                       ELSE 0
                 remaining == SaturatingSub(w, t0)
             IN  IF tier2_samples > 0 /\ remaining > 0
                 THEN LET t1 == IF tier1_samples > 0
                                THEN Max((remaining * 2) \div 3,
                                         IF remaining > 1 THEN 1 ELSE 0)
                                ELSE 0
                          t2 == SaturatingSub(remaining, t1)
                      IN  Alloc(t0, t1, t2,
                                tier0_samples, tier1_samples, tier2_samples)
                 ELSE IF tier1_samples > 0
                 THEN Alloc(t0, remaining, 0, tier0_samples, tier1_samples, 0)
                 ELSE Alloc(t0, 0, 0, tier0_samples, 0, 0)

\* The allocation of bars to tiers for a non-empty history and a width > 0.
Allocate(hist_len, w) ==
    LET tier0_samples == Tier0Samples(hist_len)
        tier1_samples == Tier1Samples(hist_len)
        tier2_samples == Tier2Samples(hist_len)
    IN  IF w >= tier0_samples
        THEN AllocatePlenty(w, tier0_samples, tier1_samples, tier2_samples)
        ELSE IF tier1_samples = 0 /\ tier2_samples = 0 /\ tier0_samples > w
        THEN AllocateVirtual(w, tier0_samples)
        ELSE AllocateConstrained(w, tier0_samples, tier1_samples, tier2_samples)

\* Sum of the code's samples lo..hi (0-based, end excluded): h[lo+1..hi].
\* Integer addition is associative, so the halves are summed separately.
RECURSIVE SumRange(_, _, _)
SumRange(h, lo, hi) ==
    IF hi <= lo THEN 0
    ELSE IF hi = lo + 1 THEN h[hi]
    ELSE LET mid == (lo + hi) \div 2
         IN  SumRange(h, lo, mid) + SumRange(h, mid, hi)

\* A variant of Mean that takes the first sample of the range for the bar.
Mean_FirstSample(h, sample_start, actual_end) ==
    [sum |-> IF actual_end > sample_start THEN h[sample_start + 1] ELSE 0,
     n |-> IF actual_end > sample_start THEN 1 ELSE 0]

\* The f64 `sum / (actual_end - sample_start)`, kept as the exact fraction.
Mean(h, sample_start, actual_end) ==
    [sum |-> SumRange(h, sample_start, actual_end),
     n |-> actual_end - sample_start]

\* A variant of SampleStart that rounds the start of a range up.
SampleStart_RoundedUp(start, count, bars, i) ==
    start + (i * count + bars - 1) \div bars

\* Bar i (0-based) of compress_samples: the range it averages.
SampleStart(start, count, bars, i) == start + (i * count) \div bars

\* A variant of SampleEnd whose ranges end two bars late.
SampleEnd_Skewed(start, count, bars, i) == start + ((i + 2) * count) \div bars

SampleEnd(start, count, bars, i) == start + ((i + 1) * count) \div bars

ActualEnd(h, start, count, bars, i) ==
    Min(Min(SampleEnd(start, count, bars, i), start + count), Len(h))

\* `if sample_start < actual_end`: the bar averages at least one sample.
BarNonEmpty(b) == b.n > 0

\* The closure compress_samples: for i in 0..bars, a bar is pushed only for
\* a non-empty range.
compress_samples(h, start, count, bars) ==
    IF bars = 0 \/ count = 0
    THEN <<>>
    ELSE SelectSeq([k \in 1..bars |->
                       Mean(h, SampleStart(start, count, bars, k - 1),
                            ActualEnd(h, start, count, bars, k - 1))],
                   BarNonEmpty)

\* A variant of compress_scheme without the early return.
compress_scheme_NoEarlyReturn(h, w) == Allocate(Len(h), w)

\* A variant of EarlyReturn that lets a width of zero through.
EarlyReturn_EmptyOnly(h, w) == Len(h) = 0

\* `if hist.is_empty() || width == 0`
EarlyReturn(h, w) == Len(h) = 0 \/ w = 0

\* The first half of compress_history: the early return or the allocation.
compress_scheme(h, w) ==
    IF EarlyReturn(h, w) THEN ZeroScheme ELSE Allocate(Len(h), w)

\* The usize subtraction a - b has no result: b is larger than a.
SubFaults(a, b) == a < b

\* The usize division by b has no result.
DivFaults(b) == b = 0

\* The subtractions of "Calculate samples in each tier".
TierSamplesFault(hist_len) ==
    \/ /\ hist_len > TIER0_END
       /\ SubFaults(hist_len, TIER0_END) \/ SubFaults(TIER1_END, TIER0_END)
    \/ /\ hist_len > TIER1_END
       /\ SubFaults(hist_len, TIER1_END)

\* The subtractions of the branch width >= tier0_samples: `width - t0`, and
\* between the ideal and 1:1 `remaining - ideal_remain`,
\* `tier1_samples - ideal_t1` and `tier2_samples - ideal_t2`.
PlentyFault(w, tier0_samples, tier1_samples, tier2_samples) ==
    LET t0 == tier0_samples
        remaining == w - t0
        ideal_t1 == IdealT1(tier1_samples)
        ideal_t2 == IdealT2(tier2_samples)
        ideal_remain == ideal_t1 + ideal_t2
    IN  \/ SubFaults(w, t0)
        \/ /\ tier1_samples > 0
           /\ tier2_samples > 0
           /\ remaining < tier1_samples + tier2_samples
           /\ remaining >= ideal_remain
           /\ \/ SubFaults(remaining, ideal_remain)
              \/ SubFaults(tier1_samples, ideal_t1)
              \/ SubFaults(tier2_samples, ideal_t2)

\* The subtractions of the virtual tiering:
\* `tier0_samples - recent_samples` and `width - recent_bars`.
VirtualFault(w, tier0_samples) ==
    LET recent_samples == Max(tier0_samples \div 3, 1)
        recent_bars == Min(Max((w * 2) \div 3, 1), recent_samples)
    IN  SubFaults(tier0_samples, recent_samples) \/ SubFaults(w, recent_bars)

\* The allocation meets a subtraction without a result.  The normal
\* constrained allocation subtracts with saturating_sub only.
AllocateFaults(hist_len, w) ==
    LET tier0_samples == Tier0Samples(hist_len)
        tier1_samples == Tier1Samples(hist_len)
        tier2_samples == Tier2Samples(hist_len)
    IN  \/ TierSamplesFault(hist_len)
        \/ IF w >= tier0_samples
           THEN PlentyFault(w, tier0_samples, tier1_samples, tier2_samples)
           ELSE /\ tier1_samples = 0 /\ tier2_samples = 0 /\ tier0_samples > w
                /\ VirtualFault(w, tier0_samples)

\* The first half of compress_history meets an operation without a result.
compress_scheme_faults(h, w) ==
    ~EarlyReturn(h, w) /\ AllocateFaults(Len(h), w)

\* The closure compress_samples meets an operation without a result: the
\* division by bars, an index hist[j] at or past the end of hist, the
\* subtraction `actual_end - sample_start` or the division by it.
compress_samples_faults(h, start, count, bars) ==
    /\ ~(bars = 0 \/ count = 0)
    /\ \E i \in 0..(bars - 1) :
          LET sample_start == SampleStart(start, count, bars, i)
              actual_end == ActualEnd(h, start, count, bars, i)
          IN  \/ DivFaults(bars)
              \/ /\ sample_start < actual_end
                 /\ \/ actual_end - 1 >= Len(h)
                    \/ SubFaults(actual_end, sample_start)
                    \/ DivFaults(actual_end - sample_start)

\* "Build compressed output" meets an operation without a result.
compress_output_faults(h, a) ==
    \/ compress_samples_faults(h, 0, a.tier0_samples, a.tier0_bars)
    \/ /\ a.tier1_bars > 0
       /\ compress_samples_faults(h, a.tier0_samples, a.tier1_samples,
                                  a.tier1_bars)
    \/ /\ a.tier2_bars > 0
       /\ compress_samples_faults(h, a.tier0_samples + a.tier1_samples,
                                  a.tier2_samples, a.tier2_bars)

\* The second half of compress_history: "Build compressed output".
compress_output(h, a) ==
    compress_samples(h, 0, a.tier0_samples, a.tier0_bars)
    \o (IF a.tier1_bars > 0
        THEN compress_samples(h, a.tier0_samples, a.tier1_samples, a.tier1_bars)
        ELSE <<>>)
    \o (IF a.tier2_bars > 0
        THEN compress_samples(h, a.tier0_samples + a.tier1_samples,
                              a.tier2_samples, a.tier2_bars)
        ELSE <<>>)

\* A variant of add_tier_markers whose ratio is rounded down.
add_tier_markers_FloorRatio(bars, samples, fallback_char) ==
    IF bars = 0 THEN <<>>
    ELSE IF bars > samples THEN [i \in 1..bars |-> "!"]
    ELSE LET ratio == IF bars > 0 /\ samples > 0
                      THEN samples \div bars
                      ELSE 1
         IN  IF ratio = 1
             THEN [i \in 1..bars |-> " "]
             ELSE [i \in 1..bars |-> fallback_char]

\* render.rs 28-70, the closure add_tier_markers: the markers of one tier.
\* The ratio is the ceiling of samples / bars.
add_tier_markers(bars, samples, fallback_char) ==
    IF bars = 0 THEN <<>>
    ELSE IF bars > samples THEN [i \in 1..bars |-> "!"]
    ELSE LET ratio == IF bars > 0 /\ samples > 0
                      THEN (samples + bars - 1) \div bars
                      ELSE 1
         IN  IF ratio = 1 /\ bars = samples
             THEN [i \in 1..bars |-> " "]
             ELSE [i \in 1..bars |-> fallback_char]

\* A variant of visual_markers that leaves tier 2 without markers.
visual_markers_NoTier2(a) ==
    IF a.tier0_bars + a.tier1_bars + a.tier2_bars = 0
    THEN <<"">>
    ELSE add_tier_markers(a.tier0_bars, a.tier0_samples, ".")
         \o add_tier_markers(a.tier1_bars, a.tier1_samples, "o")

\* CompressionScheme::visual_markers: the text of each marker.
visual_markers(a) ==
    IF a.tier0_bars + a.tier1_bars + a.tier2_bars = 0
    THEN <<"">>
    ELSE add_tier_markers(a.tier0_bars, a.tier0_samples, ".")
         \o add_tier_markers(a.tier1_bars, a.tier1_samples, "o")
         \o add_tier_markers(a.tier2_bars, a.tier2_samples, "O")

\* render.rs 409: BARS, the eight glyphs from the lowest to the full block,
\* by their height.
BARS == <<"1/8", "2/8", "3/8", "4/8", "5/8", "6/8", "7/8", "8/8">>

\* 1.0 in the units of bar_f.
One == Len(BARS) * RatioScale

\* `let sub_seg = 1. / BARS.len() as f64`, in the units of bar_f.
sub_seg == One \div Len(BARS)

\* `f < 0.03`
DeadZone(f) == 100 * f < 3 * One

\* A variant of LoopContinues that goes on at the edge of a bin.
LoopContinues_AtEdge(f) == f >= sub_seg

\* `while f > sub_seg`
LoopContinues(f) == f > sub_seg

\* No call of float_bar is being looked at.
BarIdle ==
    /\ bar_p = 0
    /\ bar_f = 0
    /\ bar_i = 0
    /\ bar_out = <<>>
    /\ bar_pc = "call"

\* The ratios float_bar is tried on: below zero, every step of 1 / RatioScale
\* up to 1, and as many above 1.
BarRatios == (0 - Near)..(2 * RatioScale)

\* float_bar up to its loop: `f = f.min(1.)`, then the dead zone's return.
FloatBarEnter ==
    /\ bar_pc = "call"
    /\ bar_out = <<>>
    /\ LET f == Min(Len(BARS) * bar_p, One)
       IN  IF DeadZone(f)
           THEN /\ bar_out' = <<" ">>
                /\ bar_pc' = "done"
                /\ UNCHANGED <<bar_f, bar_i>>
           ELSE /\ bar_f' = f
                /\ bar_i' = 0
                /\ bar_pc' = "loop"
                /\ UNCHANGED bar_out
    /\ UNCHANGED <<bar_p, renderVars, tableVars, loopVars, ewmaVars, keyVars>>

\* One turn of the loop: `f -= sub_seg; i += 1`.
FloatBarLoop ==
    /\ bar_pc = "loop"
    /\ LoopContinues(bar_f)
    /\ bar_f' = bar_f - sub_seg
    /\ bar_i' = bar_i + 1
    /\ UNCHANGED <<bar_p, bar_out, bar_pc, renderVars, tableVars, loopVars,
                   ewmaVars, keyVars>>

\* `BARS[i]`: the glyph, or the panic of an index out of bounds.
FloatBarReturn ==
    /\ bar_pc = "loop"
    /\ ~LoopContinues(bar_f)
    /\ bar_out' = IF bar_i < Len(BARS) THEN <<BARS[bar_i + 1]>> ELSE <<"panic">>
    /\ bar_pc' = "done"
    /\ UNCHANGED <<bar_p, bar_f, bar_i, renderVars, tableVars, loopVars,
                   ewmaVars, keyVars>>

\* tests::make_history: the samples 0, 1, ..., len-1, newest first.
make_history(len) == [i \in 1..len |-> i - 1]

(***************************************************************************)
(* SpecScheme: the allocation of compress_history, for a history of every  *)
(* length 0..SAMPLE_LIMIT and every width 0..MaxWidth.                     *)
(* SpecCompress: the whole of compress_history, allocation and output, for *)
(* every width 0..MaxWidth and the history lengths HistLens: those within  *)
(* Near of a tier boundary and the middle of each tier.                    *)
(***************************************************************************)
Boundaries == {0, TIER0_END, TIER1_END, SAMPLE_LIMIT}

HistLens ==
    {n \in 0..SAMPLE_LIMIT :
        \/ \E b \in Boundaries : n - b <= Near /\ b - n <= Near
        \/ \E b, c \in Boundaries : b < c /\ n = (b + c) \div 2}

InitScheme ==
    /\ hist \in {make_history(n) : n \in 0..SAMPLE_LIMIT}
    /\ width \in 0..MaxWidth
    /\ compressed = <<>>
    /\ scheme = ZeroScheme
    /\ rpc = "input"
    /\ markers = <<>>
    /\ InitTable
    /\ LoopIdle
    /\ EwmaIdle
    /\ BarIdle
    /\ KeyIdle

InitCompress ==
    /\ hist \in {make_history(n) : n \in HistLens}
    /\ width \in 0..MaxWidth
    /\ compressed = <<>>
    /\ scheme = ZeroScheme
    /\ rpc = "input"
    /\ markers = <<>>
    /\ InitTable
    /\ LoopIdle
    /\ EwmaIdle
    /\ BarIdle
    /\ KeyIdle

\* render.rs 128-317: the early return's scheme, or the bars of each tier.
AllocateBars ==
    /\ rpc = "input"
    /\ scheme' = compress_scheme(hist, width)
    /\ rpc' = IF compress_scheme_faults(hist, width) THEN "fault" ELSE "allocated"
    /\ UNCHANGED <<hist, width, compressed, markers, tableVars, loopVars,
                   ewmaVars, barVars, keyVars>>

\* render.rs 320-366: the bars' values, tier0 first.
BuildOutput ==
    /\ rpc = "allocated"
    /\ compressed' = compress_output(hist, scheme)
    /\ rpc' = IF compress_output_faults(hist, scheme) THEN "fault" ELSE "done"
    /\ UNCHANGED <<hist, width, scheme, markers, tableVars, loopVars,
                   ewmaVars, barVars, keyVars>>

\* scheme.visual_markers(), called on the scheme compress_history returned.
DrawMarkers ==
    /\ rpc # "input"
    /\ markers = <<>>
    /\ markers' = visual_markers(scheme)
    /\ UNCHANGED <<hist, width, compressed, scheme, rpc, tableVars, loopVars,
                   ewmaVars, barVars, keyVars>>

NextScheme == AllocateBars

SpecScheme == InitScheme /\ [][NextScheme]_vars

NextCompress == AllocateBars \/ BuildOutput

SpecCompress == InitCompress /\ [][NextCompress]_vars

\* SpecIdentity: compress_history for a history of every length and a width
\* equal to its length, or one less or one more.
InitIdentity ==
    /\ hist \in {make_history(n) : n \in 0..SAMPLE_LIMIT}
    /\ width \in {w \in 0..MaxWidth : w - Len(hist) \in {0 - 1, 0, 1}}
    /\ compressed = <<>>
    /\ scheme = ZeroScheme
    /\ rpc = "input"
    /\ markers = <<>>
    /\ InitTable
    /\ LoopIdle
    /\ EwmaIdle
    /\ BarIdle
    /\ KeyIdle

NextIdentity == AllocateBars \/ BuildOutput

SpecIdentity == InitIdentity /\ [][NextIdentity]_vars

\* SpecMarkers: the scheme of every history length and width, and the
\* markers drawn for it.
NextMarkers == AllocateBars \/ DrawMarkers

SpecMarkers == InitScheme /\ [][NextMarkers]_vars

\* Widths below the number of tiers, at it, and just above.
NarrowWidths == 0..(3 + Near)

\* SpecNarrow: compress_history for a history of every length and a narrow
\* width.
InitNarrow ==
    /\ hist \in {make_history(n) : n \in 0..SAMPLE_LIMIT}
    /\ width \in NarrowWidths
    /\ compressed = <<>>
    /\ scheme = ZeroScheme
    /\ rpc = "input"
    /\ markers = <<>>
    /\ InitTable
    /\ LoopIdle
    /\ EwmaIdle
    /\ BarIdle
    /\ KeyIdle

NextNarrow == AllocateBars \/ BuildOutput

SpecNarrow == InitNarrow /\ [][NextNarrow]_vars

\* SpecTier0: compress_history for every history that lies within tier0 and
\* every width up to just above its longest.
InitTier0 ==
    /\ hist \in {make_history(n) : n \in 0..TIER0_END}
    /\ width \in 0..(TIER0_END + Near)
    /\ compressed = <<>>
    /\ scheme = ZeroScheme
    /\ rpc = "input"
    /\ markers = <<>>
    /\ InitTable
    /\ LoopIdle
    /\ EwmaIdle
    /\ BarIdle
    /\ KeyIdle

NextTier0 == AllocateBars \/ BuildOutput

SpecTier0 == InitTier0 /\ [][NextTier0]_vars

\* No call of compress_history is in progress.
RenderIdle ==
    /\ hist = <<>>
    /\ width = 0
    /\ compressed = <<>>
    /\ scheme = ZeroScheme
    /\ rpc = "input"
    /\ markers = <<>>

InitTableSpec ==
    /\ InitTableWith(MaxLive, TableWeights)
    /\ RenderIdle
    /\ LoopIdle
    /\ EwmaIdle
    /\ BarIdle
    /\ KeyIdle

NextTable == TableTick

SpecTable == InitTableSpec /\ [][NextTable]_vars

\* SpecBar: one call of float_bar on every ratio of BarRatios.
InitBar ==
    /\ bar_p \in BarRatios
    /\ bar_f = 0
    /\ bar_i = 0
    /\ bar_out = <<>>
    /\ bar_pc = "call"
    /\ RenderIdle
    /\ InitTable
    /\ LoopIdle
    /\ EwmaIdle
    /\ KeyIdle

NextBar == FloatBarEnter \/ FloatBarLoop \/ FloatBarReturn

SpecBar == InitBar /\ [][NextBar]_vars

(***************************************************************************)
(* SpecKeys: a ViewState, from its default, under any sequence of calls of *)
(* handle_key.                                                             *)
(***************************************************************************)
\* The keys handle_key is tried on: those the reader reads in the model, the
\* other characters of the pickers' tables, and a character in no table.
PickerKeys == Keys \cup {"n", "r", "w", "d", "m", "x"}

\* One call of ViewState::handle_key with any key.
KeyPress ==
    /\ \E code \in PickerKeys :
          /\ state' = handle_key(state, code)
          /\ key_code' = code
    /\ UNCHANGED <<chan, sent, received, applied, ticker_pc, ticker_last,
                   reader_pc, main_pc, exit_status, alt_screen, raw_mode,
                   restore_called, io_failed, height, overflow_checks,
                   ticks_left, input_left>>
    /\ UNCHANGED <<renderVars, tableVars, ewmaVars, barVars>>

InitKeys ==
    /\ KeyIdle
    /\ LoopIdle
    /\ RenderIdle
    /\ InitTable
    /\ EwmaIdle
    /\ BarIdle

NextKeys == KeyPress

SpecKeys == InitKeys /\ [][NextKeys]_vars

(***************************************************************************)
(* SpecEwma: one call of ewma on every pair of values and every weight.    *)
(***************************************************************************)
InitEwma ==
    /\ ewma_new \in Values
    /\ ewma_prev \in Values
    /\ ewma_out = 0
    /\ ewma_pc = "input"
    /\ InitTableWith(0, Weights)
    /\ RenderIdle
    /\ LoopIdle
    /\ BarIdle
    /\ KeyIdle

NextEwma == Smooth

SpecEwma == InitEwma /\ [][NextEwma]_vars

(***************************************************************************)
(* SpecLoop: the whole program: main, the ticker and the reader, with      *)
(* MaxTicks ticks and MaxInput terminal events.                            *)
(* FairLoop: the same steps on a machine that reports no process, with a   *)
(* ticker that never runs out of ticks; the main thread and the ticker     *)
(* thread are scheduled whenever they can run.                             *)
(***************************************************************************)
InitLoop ==
    /\ InitTable
    /\ RenderIdle
    /\ LoopStart(MaxTicks, MaxInput, BOOLEAN)
    /\ EwmaIdle
    /\ BarIdle
    /\ KeyIdle

NextLoop == MainStep \/ TickerStep \/ ReaderStep

SpecLoop == InitLoop /\ [][NextLoop]_vars

InitFair ==
    /\ InitTableWith(0, {DefaultWeight})
    /\ RenderIdle
    /\ LoopStart(Forever, MaxInput, BOOLEAN)
    /\ EwmaIdle
    /\ BarIdle
    /\ KeyIdle

FairLoop ==
    /\ InitFair
    /\ [][NextLoop]_vars
    /\ WF_vars(MainStep)
    /\ WF_vars(TickerStep)

(***************************************************************************)
(* Properties of compress_history.                                         *)
(***************************************************************************)

\* C1: for every history H of length 0..600 and every width W >= 0,
\* compress_history(H, W) returns exactly min(W, len(H)) values.
C1_LenIsMinWidthLen ==
    rpc = "done" => Len(compressed) = Min(width, Len(hist))

\* C2: for every history length and width, no tier of the returned scheme has
\* more bars than samples: tier0_bars <= tier0_samples, tier1_bars <=
\* tier1_samples and tier2_bars <= tier2_samples.
C2_NoTierStretched ==
    rpc = "allocated" =>
        /\ scheme.tier0_bars <= scheme.tier0_samples
        /\ scheme.tier1_bars <= scheme.tier1_samples
        /\ scheme.tier2_bars <= scheme.tier2_samples

\* C10: whenever W >= samples(tier0) = min(len(H), 120), tier0 is
\* uncompressed: tier0_bars = tier0_samples = min(len(H), 120), and the first
\* tier0_samples output values are the newest tier0_samples raw samples, each
\* the mean of that one sample, in order.
C10_Tier0Uncompressed ==
    (rpc = "done" /\ width >= Tier0Samples(Len(hist))) =>
        /\ scheme.tier0_samples = Tier0Samples(Len(hist))
        /\ scheme.tier0_bars = scheme.tier0_samples
        /\ Len(compressed) >= scheme.tier0_samples
        /\ \A i \in 1..scheme.tier0_samples :
               compressed[i] = [sum |-> hist[i], n |-> 1]

\* C10's case: a full tier0 shown 1:1 while the older tiers are compressed.
C10_Witness ==
    /\ rpc = "done"
    /\ Len(hist) > TIER1_END
    /\ width >= TIER0_END
    /\ width < Len(hist)
    /\ scheme.tier0_bars = TIER0_END
    /\ scheme.tier1_bars < scheme.tier1_samples

\* C11: for every history H of length 1..600, compress_history(H, len(H))
\* returns exactly the samples of H, unchanged and in the same order.
C11_FullWidthIsIdentity ==
    (rpc = "done" /\ Len(hist) >= 1 /\ width = Len(hist)) =>
        /\ Len(compressed) = Len(hist)
        /\ \A i \in 1..Len(hist) : compressed[i] = [sum |-> hist[i], n |-> 1]

\* C11's case: a full history of all three tiers returned sample by sample.
C11_Witness ==
    /\ rpc = "done"
    /\ Len(hist) = SAMPLE_LIMIT
    /\ width = SAMPLE_LIMIT
    /\ Len(compressed) = SAMPLE_LIMIT
    /\ scheme.tier2_bars = SAMPLE_LIMIT - TIER1_END

\* C12: for every history (0..600 samples) and every width, the number of
\* values compress_history returns equals tier0_bars + tier1_bars + tier2_bars
\* of the scheme it returns.
C12_ValuesEqualBars ==
    rpc = "done" =>
        Len(compressed) =
            scheme.tier0_bars + scheme.tier1_bars + scheme.tier2_bars

\* C13: for a 600-sample history and every width W in 1..600, the tier bar
\* counts sum to exactly W and exactly W values are returned.
C13_FullHistoryFillsWidth ==
    (rpc = "done" /\ Len(hist) = SAMPLE_LIMIT
                  /\ width >= 1 /\ width <= SAMPLE_LIMIT) =>
        /\ scheme.tier0_bars + scheme.tier1_bars + scheme.tier2_bars = width
        /\ Len(compressed) = width

\* C13's case: a full history squeezed into a width that compresses all
\* three tiers.
C13_Witness ==
    /\ rpc = "done"
    /\ Len(hist) = SAMPLE_LIMIT
    /\ width = 50
    /\ Len(compressed) = 50
    /\ scheme.tier0_bars < scheme.tier0_samples
    /\ scheme.tier1_bars > 0
    /\ scheme.tier2_bars > 0

\* C14: for every history H and width W with len(H) > W >= 1, the markers of
\* the returned scheme contain at least one marker that is not blank.
C14_CompressionIsMarked ==
    (rpc = "allocated" /\ Len(hist) > width /\ width >= 1) =>
        \E i \in 1..Len(visual_markers(scheme)) :
            visual_markers(scheme)[i] \notin {" ", ""}

\* The number of tiers that hold samples of a history of this length.
NonEmptyTiers(hist_len) ==
    (IF hist_len > 0 THEN 1 ELSE 0)
    + (IF hist_len > TIER0_END THEN 1 ELSE 0)
    + (IF hist_len > TIER1_END THEN 1 ELSE 0)

\* C15: for every history of more than 120 samples and every width W with
\* 1 <= W <= (number of non-empty tiers), the W newest tiers get one bar each
\* and the others none: (1,0,0) for W=1, (1,1,0) for W=2, (1,1,1) for W=3.
C15_NarrowOneBarPerTier ==
    (rpc = "allocated" /\ Len(hist) > TIER0_END
                       /\ width >= 1 /\ width <= NonEmptyTiers(Len(hist))) =>
        /\ scheme.tier0_bars = 1
        /\ scheme.tier1_bars = (IF width >= 2 THEN 1 ELSE 0)
        /\ scheme.tier2_bars = (IF width >= 3 THEN 1 ELSE 0)

\* C15's case: three tiers of samples and a width of three.
C15_Witness ==
    /\ rpc = "allocated"
    /\ Len(hist) > TIER1_END
    /\ width = 3
    /\ scheme.tier0_bars = 1
    /\ scheme.tier1_bars = 1
    /\ scheme.tier2_bars = 1

\* C16: compress_history with an empty history or with width 0 returns no
\* values and a scheme whose six fields are all zero.
C16_DegenerateIsEmpty ==
    (rpc = "done" /\ (Len(hist) = 0 \/ width = 0)) =>
        /\ compressed = <<>>
        /\ scheme.tier0_bars = 0 /\ scheme.tier1_bars = 0
        /\ scheme.tier2_bars = 0 /\ scheme.tier0_samples = 0
        /\ scheme.tier1_samples = 0 /\ scheme.tier2_samples = 0

\* C16's case: a history with samples and no width to show it in.
C16_Witness ==
    /\ rpc = "done"
    /\ Len(hist) = SAMPLE_LIMIT
    /\ width = 0
    /\ compressed = <<>>

(***************************************************************************)
(* Properties of the record table.                                         *)
(***************************************************************************)

\* C3: if a tracked process is absent from the snapshot of one update and
\* present again in the snapshot of the next, its record is Tombstoned after
\* the first of the two updates and Alive again (is_dead() false, no
\* dead-tick counter) after the second.
C3_ReappearedIsAlive ==
    [][\A pid \in Pids :
          absent_run[pid] = 1 =>
              /\ pid \in DOMAIN sprocs /\ is_dead(sprocs[pid])
              /\ pid \in DOMAIN latest_procs' =>
                     /\ pid \in DOMAIN sprocs'
                     /\ ~is_dead(sprocs'[pid])]_vars

\* C4: a record that is Alive and then absent from 601 consecutive snapshots
\* is in the table, Tombstoned, after each of the first 600 of those updates
\* and is gone from the table after the 601st.
C4_ReapedByThe601st ==
    \A pid \in Pids :
        (absent_run[pid] >= 1 /\ alive_before[pid]) =>
            IF absent_run[pid] <= SAMPLE_LIMIT
            THEN pid \in DOMAIN sprocs /\ is_dead(sprocs[pid])
            ELSE pid \notin DOMAIN sprocs

\* C4's case: the 601st absence in a row has removed a record that was Alive.
C4_Witness ==
    \E pid \in Pids :
        /\ alive_before[pid]
        /\ absent_run[pid] = SAMPLE_LIMIT + 1
        /\ pid \notin DOMAIN sprocs

\* The sample an update pushed for a record it kept: the snapshot's, or zero.
PushedBy(latest, pid) ==
    IF pid \in DOMAIN latest
    THEN [cpu |-> latest[pid].cpu_usage, disk_read |-> latest[pid].read_bytes,
          disk_write |-> latest[pid].written_bytes]
    ELSE [cpu |-> 0, disk_read |-> 0, disk_write |-> 0]

\* h2 is h with x put at the front and, if h was full, its last sample dropped.
PushedAtFront(h, x, h2) ==
    /\ Len(h2) = Min(Len(h) + 1, SAMPLE_LIMIT)
    /\ h2[1] = x
    /\ \A i \in 2..Len(h2) : h2[i] = h[i - 1]

\* C9: every history of every record holds at most 600 samples; an update puts
\* the new sample at index 0 and, when the history is full, drops the sample
\* at the back, the order of the others unchanged.
C9_HistoryBoundedPushFront ==
    [][/\ \A pid \in DOMAIN sprocs' :
              /\ Len(sprocs'[pid].cpu_hist) <= SAMPLE_LIMIT
              /\ Len(sprocs'[pid].disk_read_hist) <= SAMPLE_LIMIT
              /\ Len(sprocs'[pid].disk_write_hist) <= SAMPLE_LIMIT
       /\ \A pid \in DOMAIN sprocs \cap DOMAIN sprocs' :
              LET x == PushedBy(latest_procs', pid)
              IN  /\ PushedAtFront(sprocs[pid].cpu_hist, x.cpu,
                                   sprocs'[pid].cpu_hist)
                  /\ PushedAtFront(sprocs[pid].disk_read_hist, x.disk_read,
                                   sprocs'[pid].disk_read_hist)
                  /\ PushedAtFront(sprocs[pid].disk_write_hist, x.disk_write,
                                   sprocs'[pid].disk_write_hist)]_tableVars

\* C9's case: a record whose full history has been pushed to, so that its
\* oldest sample was dropped (a live sample once, then 600 dead ones).
C9_Witness ==
    \E pid \in DOMAIN sprocs :
        /\ Len(sprocs[pid].cpu_hist) = SAMPLE_LIMIT
        /\ is_dead(sprocs[pid])
        /\ sprocs[pid].tombstone[1].dead_for_ticks = SAMPLE_LIMIT
        /\ \A i \in 1..SAMPLE_LIMIT : sprocs[pid].cpu_hist[i] = 0

(***************************************************************************)
(* Properties of the channel, the loop and the terminal.                   *)
(***************************************************************************)
IsPrefix(s, t) == Len(s) <= Len(t) /\ SubSeq(t, 1, Len(s)) = s

\* C5: the events EventStream::next has returned are, in order, a prefix of
\* the events sent, in the order the sends completed; what was sent and not
\* yet returned is what the channel holds: nothing dropped, doubled or merged.
C5_ReceivedInSendOrder ==
    /\ IsPrefix(received, sent)
    /\ (ReceiverAlive /\ Len(sent) < MaxLog) => sent = received \o chan

\* C5's case: both producers have sent, their events interleaved, and the
\* consumer has received three of them while a fourth waits.
C5_Witness ==
    /\ Len(received) = 3
    /\ received[1].type = "Key"
    /\ received[2].type = "Tick"
    /\ received[3].type = "Resize"
    /\ Len(sent) = 4
    /\ chan = <<TickEvent>>

TicksIn(log) == Len(SelectSeq(log, LAMBDA e : e.type = "Tick"))

\* The table that updates with these snapshots, in order, make of an empty one.
RECURSIVE TableAfter(_)
TableAfter(snaps) ==
    IF snaps = <<>> THEN <<>>
    ELSE update(TableAfter(SubSeq(snaps, 1, Len(snaps) - 1)), snaps[Len(snaps)],
                ewma_weight)

\* C6: the table changes only in the step in which the consumer handles a
\* Tick; there has been one update for each Tick consumed, none for a Key or
\* a Resize, and the table is what those updates make of their snapshots,
\* however keys and resizes were interleaved.
C6_TableChangesOnlyOnTick ==
    /\ [](Len(received) < MaxLog =>
             /\ Len(applied) = TicksIn(received)
             /\ sprocs = TableAfter(applied))
    /\ [][(sprocs' # sprocs \/ applied' # applied) =>
             /\ main_pc = "next"
             /\ chan # <<>>
             /\ Head(chan).type = "Tick"
             /\ chan' = Tail(chan)
             /\ Len(applied') = Len(applied) + 1]_vars

\* C6's case: a key and a resize consumed between two ticks, both ticks
\* having changed the table.
C6_Witness ==
    /\ Len(received) = 4
    /\ received[1].type = "Tick"
    /\ received[2].type = "Key"
    /\ received[3].type = "Resize"
    /\ received[4].type = "Tick"
    /\ Len(applied) = 2
    /\ sprocs # <<>>
    /\ sprocs # TableAfter(SubSeq(applied, 1, 1))

\* C7: when the process has ended, the terminal is neither in the alternate
\* screen nor in raw mode, however main ended: the quit key, a draw error, a
\* panic, or a failure part-way through init_terminal or restore_terminal.
C7_ModesReleasedAtExit ==
    main_pc = "exited" => ~alt_screen /\ ~raw_mode

\* C8: once a terminal read of the reader thread or a terminal write of draw
\* has failed, the loop stops and the process ends, restore_terminal having
\* been called.
C8_IoFailureEndsProcess ==
    io_failed ~> (main_pc = "exited" /\ restore_called)

(***************************************************************************)
(* Properties of the samples an update feeds to the records.               *)
(***************************************************************************)
\* out is new_val * w + prev * (1 - w), rounded down to the fixed-point unit.
IsWeightedMean(out, new_val, prev, w) ==
    /\ w.den * out <= w.num * new_val + (w.den - w.num) * prev
    /\ w.num * new_val + (w.den - w.num) * prev < w.den * (out + 1)

\* C17: an update that finds a pid without a record creates an Alive record
\* whose cpu, disk-read and disk-write averages equal the first raw values
\* (not zero, not smoothed) and whose three histories each hold exactly that
\* one sample.
C17_NewRecordSeeded ==
    [][\A pid \in DOMAIN latest_procs' \ DOMAIN sprocs :
           /\ pid \in DOMAIN sprocs'
           /\ LET sp == sprocs'[pid]
                  p == latest_procs'[pid]
              IN  /\ ~is_dead(sp)
                  /\ sp.cpu_ewma = ToFixed(p.cpu_usage)
                  /\ sp.disk_read_ewma = ToFixed(p.read_bytes)
                  /\ sp.disk_write_ewma = ToFixed(p.written_bytes)
                  /\ sp.cpu_hist = <<p.cpu_usage>>
                  /\ sp.disk_read_hist = <<p.read_bytes>>
                  /\ sp.disk_write_hist = <<p.written_bytes>>]_tableVars

\* C17's case: a record made by the latest update from a process with
\* non-zero values, next to a record that is older.
C17_Witness ==
    \E pid \in DOMAIN sprocs \cap DOMAIN latest_procs :
        /\ Len(sprocs[pid].cpu_hist) = 1
        /\ latest_procs[pid].cpu_usage > 0
        /\ sprocs[pid].cpu_ewma = ToFixed(latest_procs[pid].cpu_usage)
        /\ sprocs[pid].disk_write_ewma = ToFixed(latest_procs[pid].written_bytes)
        /\ ~is_dead(sprocs[pid])
        /\ \E other \in DOMAIN sprocs : Len(sprocs[other].cpu_hist) > 1

\* C18: an update that finds a pid with a record makes each average
\* raw * weight + previous * (1 - weight), overwrites mem_mb with the latest
\* raw memory (not smoothed), and pushes the raw cpu, disk-read and disk-write
\* values at index 0 of their histories; name and pid are unchanged.
C18_LiveSampleSmoothed ==
    [][\A pid \in DOMAIN sprocs \cap DOMAIN latest_procs' :
           /\ pid \in DOMAIN sprocs'
           /\ LET old == sprocs[pid]
                  new == sprocs'[pid]
                  p == latest_procs'[pid]
                  w == ewma_weight
              IN  /\ IsWeightedMean(new.cpu_ewma, ToFixed(p.cpu_usage),
                                    old.cpu_ewma, w)
                  /\ IsWeightedMean(new.disk_read_ewma, ToFixed(p.read_bytes),
                                    old.disk_read_ewma, w)
                  /\ IsWeightedMean(new.disk_write_ewma,
                                    ToFixed(p.written_bytes),
                                    old.disk_write_ewma, w)
                  /\ new.mem_mb * 1024 = ToFixed(p.memory)
                  /\ PushedAtFront(old.cpu_hist, p.cpu_usage, new.cpu_hist)
                  /\ PushedAtFront(old.disk_read_hist, p.read_bytes,
                                   new.disk_read_hist)
                  /\ PushedAtFront(old.disk_write_hist, p.written_bytes,
                                   new.disk_write_hist)
                  /\ new.name = old.name
                  /\ new.pid = old.pid]_tableVars

\* C18's case: a record that has taken a second live sample, of a process
\* with another name, other values and less memory than the first, under a
\* weight that is not a half.
C18_Witness ==
    \E pid \in DOMAIN sprocs \cap DOMAIN latest_procs :
        LET sp == sprocs[pid]
            p == latest_procs[pid]
        IN  /\ Len(sp.cpu_hist) = 2
            /\ sp.cpu_hist[1] = p.cpu_usage
            /\ sp.cpu_hist[2] < p.cpu_usage
            /\ sp.name # p.name
            /\ sp.cpu_ewma > ToFixed(sp.cpu_hist[2])
            /\ sp.cpu_ewma < ToFixed(p.cpu_usage)
            /\ sp.mem_mb * 1024 = ToFixed(p.memory)
            /\ 2 * ewma_weight.num # ewma_weight.den

\* C19: an update gives each record whose pid the snapshot lacks one all-zero
\* sample through the same path: 0 is pushed at the front of each history and
\* each average is multiplied by (1 - weight); the record is Tombstoned
\* afterwards and its dead-tick counter is one more than before, or 1 at the
\* first absence.  (A record the update removes had reached the limit.)
C19_AbsentGetsZeroSample ==
    [][\A pid \in DOMAIN sprocs \ DOMAIN latest_procs' :
           LET old == sprocs[pid]
               w == ewma_weight
           IN  IF pid \in DOMAIN sprocs'
               THEN LET new == sprocs'[pid]
                    IN  /\ PushedAtFront(old.cpu_hist, 0, new.cpu_hist)
                        /\ PushedAtFront(old.disk_read_hist, 0,
                                         new.disk_read_hist)
                        /\ PushedAtFront(old.disk_write_hist, 0,
                                         new.disk_write_hist)
                        /\ IsWeightedMean(new.cpu_ewma, 0, old.cpu_ewma, w)
                        /\ IsWeightedMean(new.disk_read_ewma, 0,
                                          old.disk_read_ewma, w)
                        /\ IsWeightedMean(new.disk_write_ewma, 0,
                                          old.disk_write_ewma, w)
                        /\ is_dead(new)
                        /\ new.tombstone[1].dead_for_ticks =
                               (IF is_dead(old)
                                THEN old.tombstone[1].dead_for_ticks + 1
                                ELSE 1)
               ELSE /\ is_dead(old)
                    /\ old.tombstone[1].dead_for_ticks >= SAMPLE_LIMIT]_tableVars

\* C19's case: a record absent twice in a row after one live sample: two
\* zeros in front of the sample, a counter of 2 and an average that has
\* decayed but is not yet zero.
C19_Witness ==
    \E pid \in DOMAIN sprocs \ DOMAIN latest_procs :
        LET sp == sprocs[pid]
        IN  /\ is_dead(sp)
            /\ sp.tombstone[1].dead_for_ticks = 2
            /\ Len(sp.cpu_hist) = 3
            /\ sp.cpu_hist[1] = 0 /\ sp.cpu_hist[2] = 0 /\ sp.cpu_hist[3] > 0
            /\ sp.cpu_ewma > 0
            /\ sp.cpu_ewma < ToFixed(sp.cpu_hist[3])

\* C20: ewma(x, x, w) = x for every weight w, and ewma(0, prev, w) =
\* prev * (1 - w), on scaled integers and weights that are fractions.
C20_EwmaFixedPointAndDecay ==
    ewma_pc = "done" =>
        /\ ewma_new = ewma_prev => ewma_out = ewma_new
        /\ ewma_new = 0 =>
               ewma_out * ewma_weight.den =
                   ewma_prev * (ewma_weight.den - ewma_weight.num)

\* C20's case: a call with a zero sample and a weight strictly between 0 and
\* 1 that is not a half, which left a part of the previous average.
C20_Witness ==
    /\ ewma_pc = "done"
    /\ ewma_new = 0
    /\ ewma_prev > 0
    /\ ewma_out > 0
    /\ ewma_out < ewma_prev
    /\ 2 * ewma_weight.num # ewma_weight.den

(***************************************************************************)
(* Properties of the markers and of the allocation of bars to tiers.       *)
(***************************************************************************)
TotalBars(a) == a.tier0_bars + a.tier1_bars + a.tier2_bars

\* C24, as claimed: for every scheme compress_history returns (any history of
\* length 0..600, any width), visual_markers returns exactly tier0_bars +
\* tier1_bars + tier2_bars markers, one per bar.
C24_MarkerPerBar ==
    markers # <<>> => Len(markers) = TotalBars(scheme)

\* C24, amended: visual_markers returns exactly tier0_bars + tier1_bars +
\* tier2_bars markers when the scheme has a bar, and a single empty marker
\* when it has none.
C24_MarkerPerBarOrPlaceholder ==
    markers # <<>> =>
        IF TotalBars(scheme) > 0
        THEN Len(markers) = TotalBars(scheme)
        ELSE markers = <<"">>

\* C24's case: the markers of a full history in 30 columns, with bars in all
\* three tiers.
C24_Witness ==
    /\ Len(hist) = SAMPLE_LIMIT
    /\ width = 30
    /\ Len(markers) = 30
    /\ scheme.tier0_bars > 0
    /\ scheme.tier1_bars > 0
    /\ scheme.tier2_bars > 0

\* The markers the claim gives a tier: one per bar, blank at one sample per
\* bar, the tier's glyph for fewer bars than samples, "!" for more.
TierMarkers(bars, samples, glyph) ==
    [i \in 1..bars |->
        IF bars = samples THEN " "
        ELSE IF bars < samples THEN glyph
        ELSE "!"]

IsMarker(m) == m # ""

C25_TwoSpeedWithinTier0 ==
    (rpc = "allocated" /\ Len(hist) <= TIER0_END
                       /\ width >= 1 /\ width < Len(hist)) =>
        LET n == Len(hist)
            newest == Max(n \div 3, 1)
            newest_bars == Min(Max((2 * width) \div 3, 1), newest)
        IN  /\ scheme.tier0_samples = newest
            /\ scheme.tier1_samples = n - newest
            /\ scheme.tier2_samples = 0
            /\ scheme.tier0_bars = newest_bars
            /\ scheme.tier1_bars = width - newest_bars
            /\ scheme.tier2_bars = 0
            /\ scheme.tier0_bars <= scheme.tier0_samples
            /\ scheme.tier1_bars <= scheme.tier1_samples
            /\ TotalBars(scheme) = width

\* C25's case: 30 samples in 10 columns; the newest 10 samples get 6 bars and
\* the older 20 get 4.
C25_Witness ==
    /\ rpc = "allocated"
    /\ Len(hist) = 30
    /\ width = 10
    /\ scheme = Alloc(6, 4, 0, 10, 20, 0)

\* samples_new / bars_new <= samples_old / bars_old, for tiers with bars.
NotMoreCompressed(samples_new, bars_new, samples_old, bars_old) ==
    (bars_new > 0 /\ bars_old > 0) =>
        samples_new * bars_old <= samples_old * bars_new

\* C26: for every history and width, more recent data is never more
\* compressed than older data: for any two tiers of the returned scheme that
\* both have bars, the newer tier's samples-per-bar ratio is at most the older
\* tier's.
C26_RecentLessCompressed ==
    rpc = "allocated" =>
        /\ NotMoreCompressed(scheme.tier0_samples, scheme.tier0_bars,
                             scheme.tier1_samples, scheme.tier1_bars)
        /\ NotMoreCompressed(scheme.tier0_samples, scheme.tier0_bars,
                             scheme.tier2_samples, scheme.tier2_bars)
        /\ NotMoreCompressed(scheme.tier1_samples, scheme.tier1_bars,
                             scheme.tier2_samples, scheme.tier2_bars)

\* C28: for every history with more than 300 samples (all three tiers
\* non-empty) and every narrow width W with 3 <= W < 120, each of the three
\* tiers gets at least one bar.
C28_NarrowShowsAllTiers ==
    (rpc = "allocated" /\ Len(hist) > TIER1_END
                       /\ width >= 3 /\ width < TIER0_END) =>
        /\ scheme.tier0_bars >= 1
        /\ scheme.tier1_bars >= 1
        /\ scheme.tier2_bars >= 1

\* C28's case: a history that just reaches tier 2, in a width above the
\* number of tiers.
C28_Witness ==
    /\ rpc = "allocated"
    /\ Len(hist) = TIER1_END + 1
    /\ width = 3 + Near
    /\ scheme.tier0_bars >= 1
    /\ scheme.tier1_bars >= 1
    /\ scheme.tier2_bars >= 1

(***************************************************************************)
(* Properties of the values of the bars.                                   *)
(***************************************************************************)
\* The sum of the samples with 0-based indices lo..hi-1 of h.
RECURSIVE SumFrom(_, _, _)
SumFrom(h, lo, hi) ==
    IF hi <= lo THEN 0
    ELSE IF hi - lo = 1 THEN h[hi]
    ELSE LET cut == lo + (hi - lo + 1) \div 2
         IN  SumFrom(h, cut, hi) + SumFrom(h, lo, cut)

\* floor(i * n / k)
Cut(i, n, k) == (i * n) \div k

\* The bars the claim gives a tier of n samples that start at index s, in k
\* bars: bar i is the mean over the indices [Cut(i), Cut(i + 1)).
TierBars(h, s, n, k) ==
    [j \in 1..k |->
        [sum |-> SumFrom(h, s + Cut(j - 1, n, k), s + Cut(j, n, k)),
         n |-> Cut(j, n, k) - Cut(j - 1, n, k)]]

\* The ranges of the k bars are non-empty, contiguous (so disjoint), and run
\* from the tier's first sample to its last.
RangesPartition(n, k) ==
    /\ \A i \in 0..(k - 1) : Cut(i, n, k) < Cut(i + 1, n, k)
    /\ Cut(0, n, k) = 0
    /\ Cut(k, n, k) = n

\* The numbers of values a tier may have put out: its bars, for a tier with
\* no more bars than samples; the claim does not speak of the others.
TierLens(n, k) == IF k <= n THEN {k} ELSE 0..k

\* part is what the claim says of a tier with 1 <= k <= n; a tier without
\* bars puts out nothing.
TierAsClaimed(h, part, s, n, k) ==
    k <= n => (part = TierBars(h, s, n, k) /\ (k >= 1 => RangesPartition(n, k)))

\* C27: the output of compress_history is the concatenation, tier0 first and
\* tier2 last, of each tier's bars, where bar i of a tier with k bars over n
\* samples (1 <= k <= n) is the arithmetic mean of the tier's samples with
\* indices [floor(i*n/k), floor((i+1)*n/k)); these ranges are non-empty,
\* disjoint, contiguous and together cover all n samples of the tier.
C27_BarsAreMeansOfEvenRanges ==
    rpc = "done" =>
        \E l0 \in TierLens(scheme.tier0_samples, scheme.tier0_bars),
           l1 \in TierLens(scheme.tier1_samples, scheme.tier1_bars) :
            LET l2 == Len(compressed) - l0 - l1
            IN  /\ l2 \in TierLens(scheme.tier2_samples, scheme.tier2_bars)
                /\ TierAsClaimed(hist, SubSeq(compressed, 1, l0), 0,
                                 scheme.tier0_samples, scheme.tier0_bars)
                /\ TierAsClaimed(hist, SubSeq(compressed, l0 + 1, l0 + l1),
                                 scheme.tier0_samples,
                                 scheme.tier1_samples, scheme.tier1_bars)
                /\ TierAsClaimed(hist,
                                 SubSeq(compressed, l0 + l1 + 1, l0 + l1 + l2),
                                 scheme.tier0_samples + scheme.tier1_samples,
                                 scheme.tier2_samples, scheme.tier2_bars)

\* C27's case: a full history in a width that compresses all three tiers,
\* with ranges of unequal size in tier 0.
C27_Witness ==
    /\ rpc = "done"
    /\ Len(hist) = SAMPLE_LIMIT
    /\ Len(compressed) = width
    /\ scheme.tier0_bars > 1
    /\ scheme.tier1_bars > 1
    /\ scheme.tier2_bars > 1
    /\ compressed[1].n # compressed[scheme.tier0_bars].n
    /\ compressed[Len(compressed)].n > 1

\* C29: for every history with more than 120 samples, compress_history(H, 1)
\* returns a single value equal to the arithmetic mean of the newest 120
\* samples; for the history 0..599 that value is 59.5.
C29_WidthOneIsMeanOfTier0 ==
    (rpc = "done" /\ Len(hist) > TIER0_END /\ width = 1) =>
        /\ Len(compressed) = 1
        /\ compressed[1].n = TIER0_END
        /\ compressed[1].sum = SumFrom(hist, 0, TIER0_END)
        /\ Len(hist) = SAMPLE_LIMIT =>
               2 * compressed[1].sum = 119 * compressed[1].n

\* C29's case: the history 0..599 in a width of 1.
C29_Witness ==
    /\ rpc = "done"
    /\ Len(hist) = SAMPLE_LIMIT
    /\ hist[SAMPLE_LIMIT] = SAMPLE_LIMIT - 1
    /\ width = 1
    /\ Len(compressed) = 1
    /\ compressed[1].n = TIER0_END

(***************************************************************************)
(* Properties of the ticker and of the consume loop.                       *)
(***************************************************************************)
\* The step puts a Tick on the channel.
TickEmitted == chan' = Append(chan, TickEvent)

\* C21, as claimed: every Tick the ticker emits is preceded by a full sleep
\* of the interval since the ticker started or since its previous Tick: the
\* ticker sleeps first and emits afterwards.
C21_SleepBeforeEveryTick ==
    [][TickEmitted => ticker_last = "slept"]_vars

\* C21, amended: the ticker emits its first Tick as soon as it starts and
\* sleeps the interval after each Tick: every Tick but the first is preceded
\* by a full sleep since the previous Tick.
C21_SleepBetweenTicks ==
    [][TickEmitted =>
           /\ ticker_last # "sent"
           /\ ticker_last = "started" => TicksIn(sent) = 0
           /\ ticker_last = "slept" => TicksIn(sent) > 0]_vars

\* C21's case: the ticker has sent a Tick, slept, and sent a second one.
C21_Witness ==
    /\ TicksIn(sent) = 2
    /\ ticker_last = "sent"
    /\ ticker_pc = "sleep"

\* The step takes an event off the channel.
Consumes == main_pc = "next" /\ Len(chan') < Len(chan)

\* C22: when the consumer handles a key event that requests quit, the consume
\* loop stops at once: no draw happens for that event, no later queued event
\* is consumed, and the table is not updated again.
C22_QuitStopsLoop ==
    [][/\ state'.should_quit => main_pc' \notin {"next", "draw"}
       /\ state.should_quit =>
              /\ ~Consumes
              /\ received' = received
              /\ sprocs' = sprocs
              /\ latest_procs' = latest_procs
              /\ applied' = applied]_vars

\* C22's case: main has ended on a quit key, after a Tick had filled the
\* table, with an event still in the queue.
C22_Witness ==
    /\ state.should_quit
    /\ main_pc = "exited"
    /\ exit_status = "ok"
    /\ chan # <<>>
    /\ sprocs # <<>>
    /\ received[Len(received)] = KeyEvent("q")

\* C23: after each consumed event that does not request quit (Tick, Resize or
\* a non-quit Key), exactly one draw happens before the next event is
\* consumed, and for a Tick that draw happens after the table update of the
\* same Tick.  main_pc = "draw": the draw for the consumed event is due.
C23_OneDrawPerEvent ==
    [][/\ (Consumes /\ ~state'.should_quit) => main_pc' = "draw"
       /\ (Consumes /\ Head(chan).type = "Tick") =>
              /\ latest_procs' \in Snapshots
              /\ sprocs' = update(sprocs, latest_procs', ewma_weight)
       /\ main_pc = "draw" =>
              /\ ~Consumes
              /\ sprocs' = sprocs
              /\ main_pc' \in {"draw", "next", "leave_alt"}
       /\ (main_pc' = "next" /\ main_pc # "next") =>
              main_pc \in {"draw", "spawn"}]_vars

\* C23's case: a Tick, a Resize and a key that does not quit have each been
\* consumed and drawn, and main waits for the next event.
C23_Witness ==
    /\ Len(received) = 3
    /\ received[1].type = "Tick"
    /\ received[2].type = "Resize"
    /\ received[3].type = "Key"
    /\ ~state.should_quit
    /\ main_pc = "next"
    /\ sprocs # <<>>

(***************************************************************************)
(* Properties of histories that lie within tier0.                          *)
(***************************************************************************)
\* The number of samples under the bars lo + 1 .. hi, and under the first i.
RECURSIVE SamplesIn(_, _, _)
SamplesIn(bars, lo, hi) ==
    IF hi <= lo THEN 0
    ELSE IF hi - lo = 1 THEN bars[hi].n
    ELSE LET cut == lo + (hi - lo) \div 2
         IN  SamplesIn(bars, lo, cut) + SamplesIn(bars, cut, hi)

SamplesUnder(bars, i) == SamplesIn(bars, 0, i)

\* The bars are the means of consecutive, non-empty ranges of h that start at
\* its newest sample and end at its oldest: every index of h is in the range
\* of exactly one bar.
CoversAll(h, bars) ==
    /\ \A i \in 1..Len(bars) :
          /\ bars[i].n >= 1
          /\ bars[i].sum = SumFrom(h, SamplesUnder(bars, i - 1),
                                   SamplesUnder(bars, i))
    /\ SamplesUnder(bars, Len(bars)) = Len(h)

\* C31 as stated: for every history of n <= 120 samples and every width W
\* with 1 <= W < n, the returned bars cover all n samples, every sample index
\* being in the range of exactly one bar.
C31_NarrowCoversAll ==
    (rpc = "done" /\ Len(hist) <= TIER0_END
                  /\ 1 <= width /\ width < Len(hist)) =>
        CoversAll(hist, compressed)

\* C31: for every history of n <= 120 samples and every width W with
\* 2 <= W < n, the returned bars cover all n samples, every sample index
\* being in the range of exactly one bar; at W = 1 the single bar is the
\* mean of the newest max(floor(n / 3), 1) samples only.
C31_NarrowCoversAllFromTwo ==
    (rpc = "done" /\ Len(hist) <= TIER0_END /\ width < Len(hist)) =>
        /\ width >= 2 => CoversAll(hist, compressed)
        /\ width = 1 =>
              /\ Len(compressed) = 1
              /\ compressed[1] = Mean(hist, 0, Max(Len(hist) \div 3, 1))

\* C31's case: the test's 30 samples in 10 bars, the newest part at full
\* resolution and the older part compressed.
C31_Witness ==
    /\ rpc = "done"
    /\ Len(hist) = 30
    /\ width = 10
    /\ Len(compressed) = 10
    /\ compressed[1].n = 1
    /\ compressed[10].n > 1
    /\ CoversAll(hist, compressed)

(***************************************************************************)
(* Properties of float_bar.                                                *)
(***************************************************************************)
\* ceil(a / b) for b > 0
CeilDiv(a, b) == (a + b - 1) \div b

\* C32: float_bar maps the ratio r = value/max as follows: r below 0.03 gives
\* a blank; otherwise r is capped at 1 and mapped to glyph index
\* ceil(8r) - 1 of 8 equal-width bins, so the index is always within 0..7
\* and every r >= 1 gives the fullest glyph.
C32_FloatBarBins ==
    bar_pc = "done" =>
        IF 100 * bar_p < 3 * RatioScale
        THEN bar_out = <<" ">>
        ELSE LET r == Min(bar_p, RatioScale)
                 index == CeilDiv(Len(BARS) * r, RatioScale) - 1
             IN  /\ index \in 0..(Len(BARS) - 1)
                 /\ bar_i = index
                 /\ bar_out = <<BARS[index + 1]>>
                 /\ bar_p >= RatioScale => bar_out = <<BARS[Len(BARS)]>>

\* C32's case: a ratio above 1 has been capped and has gone through the
\* loop to the fullest glyph.
C32_Witness ==
    /\ bar_pc = "done"
    /\ bar_p > RatioScale
    /\ bar_i = Len(BARS) - 1
    /\ bar_out = <<BARS[Len(BARS)]>>

(***************************************************************************)
(* Properties of the set of records in the table.                          *)
(***************************************************************************)
\* The records with a tombstone whose counter is within 1..SAMPLE_LIMIT.
FreshlyDead(table) ==
    {pid \in DOMAIN table :
        /\ is_dead(table[pid])
        /\ table[pid].tombstone[1].dead_for_ticks \in 1..SAMPLE_LIMIT}

\* C33: after every update, the set of ids in the table is exactly the ids of
\* the latest snapshot plus the ids of Tombstoned records whose dead-tick
\* counter is between 1 and 600; no record with a counter above 600 survives
\* an update.
C33_TableIsSnapshotAndFreshlyDead ==
    /\ DOMAIN sprocs = DOMAIN latest_procs \cup FreshlyDead(sprocs)
    /\ \A pid \in DOMAIN sprocs \ DOMAIN latest_procs :
          pid \in FreshlyDead(sprocs)
    /\ \A pid \in DOMAIN sprocs :
          is_dead(sprocs[pid]) =>
              sprocs[pid].tombstone[1].dead_for_ticks <= SAMPLE_LIMIT

\* C33's case: the table holds a record of the latest snapshot next to a
\* record in the last tick of its tombstone.
C33_Witness ==
    \E pid, other \in Pids :
        /\ pid \in DOMAIN latest_procs
        /\ pid \in DOMAIN sprocs
        /\ other \in DOMAIN sprocs \ DOMAIN latest_procs
        /\ sprocs[other].tombstone[1].dead_for_ticks = SAMPLE_LIMIT

\* C34: a record is removed from the table only by an update that is at
\* least the 601st consecutive update from whose snapshot it is absent;
\* absences separated by a reappearance do not add up towards reaping.
C34_ReapedOnlyAfter601InARow ==
    [][\A pid \in DOMAIN sprocs :
          pid \notin DOMAIN sprocs' => absent_run'[pid] >= SAMPLE_LIMIT + 1]_vars

(***************************************************************************)
(* Properties of the arithmetic of compress_history.                       *)
(***************************************************************************)
\* C35: compress_history never fails for any history length 0..600 and any
\* width W >= 0: no unsigned subtraction underflows, no division by zero
\* occurs and no history index is out of range, in every allocation branch.
\* The allocation is followed for every length and width; the bars of the
\* scheme it returns are followed for the lengths of HistLens.
C35_NeverFaults ==
    /\ rpc # "fault"
    /\ (rpc = "allocated" /\ Len(hist) \in HistLens) =>
           ~compress_output_faults(hist, scheme)

\* C35's case: a full history has gone through the allocation between the
\* ideal and 1:1, with its four subtractions, and every bar has a range.
C35_Witness ==
    /\ rpc = "allocated"
    /\ Len(hist) = SAMPLE_LIMIT
    /\ width >= TIER0_END + IdealT1(Tier1Samples(SAMPLE_LIMIT))
                          + IdealT2(Tier2Samples(SAMPLE_LIMIT))
    /\ width < SAMPLE_LIMIT
    /\ scheme.tier2_bars > 0
    /\ scheme.tier0_bars + scheme.tier1_bars + scheme.tier2_bars = width

(***************************************************************************)
(* Properties of the lengths of the histories.                             *)
(***************************************************************************)
\* C36: in every reachable state the cpu, disk-read and disk-write
\* histories of a record have the same length, equal to min(600, number of
\* samples the record has received since it was created, counting the seed
\* sample and every live or synthetic sample); each update adds exactly one
\* sample to every record that stays in the table.
C36_HistoriesInStep ==
    \A pid \in DOMAIN sprocs :
        /\ samples_taken[pid] >= 1
        /\ Len(sprocs[pid].cpu_hist) = Min(SAMPLE_LIMIT, samples_taken[pid])
        /\ Len(sprocs[pid].disk_read_hist) = Len(sprocs[pid].cpu_hist)
        /\ Len(sprocs[pid].disk_write_hist) = Len(sprocs[pid].cpu_hist)

\* C36's case: a record has taken its seed, a live sample and synthetic
\* samples, one more than its histories hold.
C36_Witness ==
    \E pid \in DOMAIN sprocs :
        /\ samples_taken[pid] = SAMPLE_LIMIT + 1
        /\ Len(sprocs[pid].cpu_hist) = SAMPLE_LIMIT
        /\ is_dead(sprocs[pid])
        /\ sprocs[pid].tombstone[1].dead_for_ticks < SAMPLE_LIMIT

(***************************************************************************)
(* Properties of ViewState::handle_key.                                    *)
(***************************************************************************)
\* C37: handle_key sets should_quit exactly when the key is 'q' and the mode
\* is Top; in the sort picker and the column picker 'q' does not quit, and no
\* key ever resets should_quit to false.
C37_QuitOnlyByQInTop ==
    [][state'.should_quit =
          (state.should_quit \/ (key_code' = "q" /\ state.action = "Top"))]_vars

\* C37's case: after a quit, 'q' has been pressed in the sort picker: it was
\* unhandled there and should_quit stayed set.
C37_Witness ==
    /\ state.should_quit
    /\ state.action = "SelectSort"
    /\ key_code = "q"
    /\ state.alert = Some("q")

\* The keys with a meaning in a mode: Esc everywhere; in Top 'q' and the
\* characters of VIEW_ACTIONS; in the sort picker those of VIEW_SORT_COLUMNS;
\* in the column picker those of VIEW_DISPLAY_COLUMNS.
HandledKeys(action) ==
    {"Esc"} \cup
    (CASE action = "Top" -> {"q", "s", "c"}
       [] action = "SelectSort" -> {"p", "r", "w", "d", "m", "c"}
       [] action = "ToggleColumn" -> {"p", "n", "r", "w", "m", "c", "h"})

\* C38: after handle_key, the alert is set if and only if the key was
\* unhandled in the current mode; an unhandled key changes nothing else
\* (mode, sort column, displayed columns and should_quit stay as they were),
\* and every handled key clears the alert.
C38_AlertIffUnhandled ==
    [][IF key_code' \in HandledKeys(state.action)
       THEN state'.alert = None
       ELSE /\ state'.alert # None
            /\ state'.action = state.action
            /\ state'.sort_by = state.sort_by
            /\ state'.sort_dir = state.sort_dir
            /\ state'.displayed_columns = state.displayed_columns
            /\ state'.should_quit = state.should_quit]_vars

\* C38's case: an unhandled key in the column picker has set the alert and
\* left the picker open, a column hidden and the sort column chosen earlier.
C38_Witness ==
    /\ state.alert = Some("Enter")
    /\ key_code = "Enter"
    /\ state.action = "ToggleColumn"
    /\ state.sort_by = "Pid"
    /\ ~state.displayed_columns["CpuHistory"]

(***************************************************************************)
(* Properties of the layout of View::draw.                                 *)
(***************************************************************************)
\* C39: for every terminal height h >= 0 reported at draw time, with or
\* without an alert showing, the layout heights computed by draw (h - 4 with
\* an alert, h - 1 without) do not underflow the unsigned 16-bit height, so a
\* Resize to any terminal size cannot make drawing fail.
C39_DrawNeverUnderflows ==
    main_pc = "draw" => ~HeightUnderflows

=============================================================================
